---- MODULE Spec2Model ----
(***************************************************************************)
(* Model of the spreadsheet subsystem of backend/batch_product_and_order.py *)
(*                                                                         *)
(*   - ProductAndSaleOrderParamsGenerator  (the configuration generator)   *)
(*   - SpreadsheetCoordinatesManager       (the coordinate registry)       *)
(*   - ProductAndSaleOrderTemplateGenerator (the template mutator)         *)
(*                                                                         *)
(* Python values are modelled as follows: a dict is a function whose       *)
(* DOMAIN is the key set, a set is a set, a list is a sequence.  An         *)
(* Optional value is a sequence of length at most one: None is <<>> and    *)
(* the value v is <<v>>, so that None and 0 are different values.  A       *)
(* raised exception is recorded by its class name in the field (or         *)
(* variable) exc; once exc is set the remaining statements of the call are *)
(* skipped, as in Python.                                                  *)
(***************************************************************************)
EXTENDS Integers, Sequences, FiniteSets, TLC

VARIABLES
    company,        \* the feature flags read by ProductAndSaleOrderBase.__init__
    websites,       \* number of active websites of the company
    active_sheet,   \* self.active_sheet of the generator
    gpc,            \* position of the running generate_xlsx_params call
    schema,         \* the locals format_value, required_columns, ... of that call
    data,           \* SpreadsheetCoordinatesManager.data
    call,           \* the last call made on the coordinates manager and its outcome
    hist,           \* per key: first stored index, sum of applied offsets, was it ever None
    ncalls,         \* number of calls made on the coordinates manager
    sku_sizes,      \* number of distinct non-blank supplier_sku_size values
    tpc,            \* position of the running get_template call
    wb,             \* the workbook being edited by get_template
    coord,          \* the coordinates manager of _update_sale_order_template
    opt,            \* row indexes computed by _update_options_template
    texc,           \* exception raised by get_template ("none" if none)
    sheet_names,    \* the sheet_names that post has passed to process_async
    ws,             \* a worksheet under structural edit: group row, header row, merges
    ws0,            \* that worksheet as it was loaded
    wops,           \* the structural edits made to ws, in order
    wpc,            \* "idle", then "loaded", "added", "deleted", "readded", "edited", "raised"
    wexc,           \* exception raised by the last structural edit ("none" if none)
    tree,           \* the directory tree that fast_walk_concurrent walks
    stack,          \* the directories of the next level
    futures,        \* the jobs submitted for the current level, in order
    yielded,        \* the tuples that the generator has yielded, in order
    fpc,            \* "idle", then "loop", "collect", "yielded", "done", "raised"
    consumer,       \* who takes the tuples: "next" (a loop to the end) or "limpar"
    fexc            \* exception that ended the consumer ("none" if none)

vars == <<company, websites, active_sheet, gpc, schema, data, call, hist, ncalls,
          sku_sizes, tpc, wb, coord, opt, texc, sheet_names, ws, ws0, wops, wpc,
          wexc, tree, stack, futures, yielded, fpc, consumer, fexc>>

gen_vars == <<active_sheet, gpc, schema>>
reg_vars == <<data, call, hist, ncalls>>
tpl_vars == <<sku_sizes, tpc, wb, coord, opt, texc>>
api_vars == <<sheet_names>>
ws_vars == <<ws, ws0, wops, wpc, wexc>>
fs_vars == <<tree, stack, futures, yielded, fpc, consumer, fexc>>

(***************************************************************************)
(* Python values                                                           *)
(***************************************************************************)
None == <<>>
Some(v) == <<v>>
IsNone(o) == o = None
ValueOf(o) == o[1]

NoExc == "none"

DictDel(d, k) == [x \in (DOMAIN d) \ {k} |-> d[x]]

DictSet(d, k, v) == [x \in (DOMAIN d) \cup {k} |-> IF x = k THEN v ELSE d[x]]

DictValues(d) == {d[x] : x \in DOMAIN d}

\* a dict display {k1: v1, ..., kn: vn} whose keys are not all constants: the
\* items are stored from left to right, a repeated key keeps its last value
DictLiteral(items) ==
    [k \in {items[i][1] : i \in DOMAIN items} |->
        LET last == CHOOSE i \in DOMAIN items :
                        /\ items[i][1] = k
                        /\ \A j \in DOMAIN items : items[j][1] = k => j <= i
        IN  items[last][2]]

SeqRemove(q, k) == SelectSeq(q, LAMBDA x : x # k)

SeqContains(q, k) == \E i \in 1..Len(q) : q[i] = k

(***************************************************************************)
(* Module constants                                                        *)
(***************************************************************************)
HEADER_GROUP_ROW == 1
HEADER_COLUMN_ROW == 2
TABLE_START_ROW == 3
OPTIONS_HEADER_COLUMN_ROW == 1
OPTIONS_TABLE_START_ROW == 2
OPTIONS_WEBSITE_COLUMN_INDEX == 3
EXCEL_MAX_ROWS == 1048576
EXCEL_ERROR_MESSAGE_MAX_LENGTH == 255

FAKE_DIMENSIONS == <<"__dimension_1__", "__dimension_2__", "__dimension_3__">>

PRODUCT == "Produtos"
SALE_ORDER == "Pedidos"
SpreadsheetActiveSheet == {PRODUCT, SALE_ORDER}

(***************************************************************************)
(* Bounds of the model                                                     *)
(***************************************************************************)
MaxWebsites == 3      \* active websites of a company: 0..MaxWebsites
MaxCalls == 3         \* calls made on one coordinates manager
MaxIndex == 1         \* largest column index given to the manager
MaxDelta == 1         \* offsets are drawn from -MaxDelta..MaxDelta and None
MaxSkuSizes == 2      \* SKU sizes: 0..MaxSkuSizes below each end of the accepted range

(***************************************************************************)
(* ProductAndSaleOrderBase.__init__: the flags of a company.  has_config   *)
(* is FALSE when the company has no SpreadsheetIntegrationConfiguration    *)
(* row (ObjectDoesNotExist); both codes then default to True.              *)
(***************************************************************************)
ProductAndSaleOrderBase(segment, catalog, has_config, product_code, order_code) ==
    [is_service_segment |-> segment,
     has_catalog |-> catalog,
     has_product_code |-> IF has_config THEN product_code ELSE TRUE,
     has_order_code |-> IF has_config THEN order_code ELSE TRUE]

Companies ==
    {ProductAndSaleOrderBase(s, c, h, p, o) :
        s \in BOOLEAN, c \in BOOLEAN, h \in BOOLEAN, p \in BOOLEAN, o \in BOOLEAN}

(***************************************************************************)
(* The statements that the generator applies to its locals.  Each one is a  *)
(* Python statement on format_value (a dict header -> coercion), on        *)
(* required_columns (a set), on validations (a dict keyed by header, kept  *)
(* here as the sequence of its keys in insertion order), on column_keys (a *)
(* dict field key -> header), or an assignment.  del d[k], d.pop(k) and    *)
(* set.remove(k) raise KeyError when k is absent.                          *)
(***************************************************************************)
St(op, k, v) == [op |-> op, k |-> k, v |-> v]

FvDel(k) == St("fv_del", k, "")               \* del format_value[k]
FvRename(new, old) == St("fv_rename", old, new) \* format_value[new] = format_value.pop(old)
FvSet(k, coercion) == St("fv_set", k, coercion) \* format_value[k] = coercion
RcRemove(k) == St("rc_remove", k, "")         \* required_columns.remove(k)
RcAdd(k) == St("rc_add", k, "")               \* required_columns.add(k)
ValDel(k) == St("val_del", k, "")             \* del validations[k]
ValSet(k) == St("val_set", k, "")             \* validations[k] = {...}
CkSet(k, header) == St("ck_set", k, header)   \* column_keys[k] = header
CkDel(k) == St("ck_del", k, "")               \* del column_keys[k]
UtfAssign(v) == St("utf_assign", "", v)       \* unique_together_fields = v
IgnoreDimensions(v) == St("ignore_dimensions", "", v) \* ignore_dimensions = v
Raise(exc) == St("raise", "", exc)            \* raise exc(...)

KeyError(s) == [s EXCEPT !.exc = "KeyError"]

Exec(s, st) ==
    IF s.exc # NoExc THEN s
    ELSE CASE st.op = "fv_del" ->
                IF st.k \in DOMAIN s.format_value
                THEN [s EXCEPT !.format_value = DictDel(@, st.k)]
                ELSE KeyError(s)
           [] st.op = "fv_rename" ->
                IF st.k \in DOMAIN s.format_value
                THEN [s EXCEPT !.format_value =
                        DictSet(DictDel(@, st.k), st.v, s.format_value[st.k])]
                ELSE KeyError(s)
           [] st.op = "fv_set" ->
                [s EXCEPT !.format_value = DictSet(@, st.k, st.v)]
           [] st.op = "rc_remove" ->
                IF st.k \in s.required_columns
                THEN [s EXCEPT !.required_columns = @ \ {st.k}]
                ELSE KeyError(s)
           [] st.op = "rc_add" ->
                [s EXCEPT !.required_columns = @ \cup {st.k}]
           [] st.op = "val_del" ->
                IF SeqContains(s.validations, st.k)
                THEN [s EXCEPT !.validations = SeqRemove(@, st.k)]
                ELSE KeyError(s)
           [] st.op = "val_set" ->
                IF SeqContains(s.validations, st.k)
                THEN s
                ELSE [s EXCEPT !.validations = Append(@, st.k)]
           [] st.op = "ck_set" ->
                [s EXCEPT !.column_keys = DictSet(@, st.k, st.v)]
           [] st.op = "ck_del" ->
                IF st.k \in DOMAIN s.column_keys
                THEN [s EXCEPT !.column_keys = DictDel(@, st.k)]
                ELSE KeyError(s)
           [] st.op = "utf_assign" ->
                [s EXCEPT !.unique_together_fields = st.v]
           [] st.op = "ignore_dimensions" ->
                [s EXCEPT !.ignore_dimensions = st.v]
           [] st.op = "raise" ->
                [s EXCEPT !.exc = st.v]

RECURSIVE Run(_, _)
Run(s, stmts) ==
    IF Len(stmts) = 0 THEN s ELSE Run(Exec(s, Head(stmts)), Tail(stmts))

\* The locals of a generator call before its first statement.
EmptySchema ==
    [format_value |-> <<>>,
     required_columns |-> {},
     validations |-> <<>>,
     unique_together_fields |-> <<>>,
     column_keys |-> <<>>,
     ignore_dimensions |-> FALSE,
     exc |-> NoExc]

(***************************************************************************)
(* _generate_product_xlsx_params                                           *)
(***************************************************************************)
ProductBaseline(dimensions) ==
    [format_value |-> DictLiteral(
        << <<"SKU *", "str">>, <<"SKU Variante *", "str">>, <<"Nome *", "str">>,
           <<"Variante *", "str">>, <<"Preço DE *", "round2">>,
           <<"Preço POR", "round2">>, <<"Custo Médio Unitário", "float">>,
           <<dimensions[1], "str">>, <<dimensions[2], "str">>,
           <<dimensions[3], "str">>, <<"Idade", "str">>, <<"Cor", "str">>,
           <<"Coleção", "str">>, <<"Estoque Disponível", "int">>,
           <<"Data do Último Recebimento", "datetime">> >>),
     required_columns |->
        {"SKU *", "SKU Variante *", "Variante *", "Nome *", "Preço DE *",
         dimensions[1], dimensions[2], dimensions[3]},
     validations |->
        <<"Variante *", "Preço DE *", "Preço POR", "Custo Médio Unitário">>,
     unique_together_fields |-> <<<<"SKU *", "Variante *">>, <<"SKU Variante *">>>>,
     column_keys |->
        ("supplier_sku_model" :> "SKU *") @@ ("supplier_sku_color" :> "SKU *")
        @@ ("supplier_sku_size" :> "SKU Variante *") @@ ("size_name" :> "Variante *")
        @@ ("full_price" :> "Preço DE *") @@ ("special_price" :> "Preço POR")
        @@ ("gross_cost" :> "Custo Médio Unitário") @@ ("age_name" :> "Idade")
        @@ ("color_name" :> "Cor") @@ ("season" :> "Coleção")
        @@ ("product_color_name" :> "Nome *") @@ ("stock" :> "Estoque Disponível")
        @@ ("last_date" :> "Data do Último Recebimento"),
     ignore_dimensions |-> FALSE,
     exc |-> NoExc]

\* if not self.has_catalog: raise ValueError(...), then the baseline locals
ProductStart(c, dimensions) ==
    IF ~c.has_catalog
    THEN [EmptySchema EXCEPT !.exc = "ValueError"]
    ELSE ProductBaseline(dimensions)

\* body of "if not self.has_product_code:"
ProductNoProductCodeStmts(dimensions) ==
    << FvDel("SKU *"),
       FvDel("SKU Variante *"),
       FvRename("Nome do Produto *", "Nome *"),
       FvDel("Variante *"),
       FvDel(dimensions[1]),
       FvDel(dimensions[2]),
       FvDel(dimensions[3]),
       RcRemove("SKU *"),
       RcRemove("SKU Variante *"),
       RcRemove("Nome *"),
       RcAdd("Nome do Produto *"),
       RcRemove("Variante *"),
       RcRemove(dimensions[1]),
       RcRemove(dimensions[2]),
       RcRemove(dimensions[3]),
       ValDel("Variante *"),
       UtfAssign(<<<<"Nome do Produto *">>>>),
       CkSet("supplier_sku_model", "Nome do Produto *"),
       CkSet("supplier_sku_color", "Nome do Produto *"),
       CkSet("supplier_sku_size", "Nome do Produto *"),
       CkSet("size_name", "Nome do Produto *"),
       CkSet("product_color_name", "Nome do Produto *"),
       IgnoreDimensions(TRUE) >>

\* body of "if self.is_service_segment:" up to the nested if
ProductServiceSegmentStmts ==
    << FvRename("Custo para o Serviço", "Custo Médio Unitário"),
       FvDel("Idade"),
       FvDel("Cor"),
       FvDel("Coleção"),
       FvDel("Estoque Disponível"),
       FvDel("Data do Último Recebimento"),
       ValSet("Custo para o Serviço"),
       ValDel("Custo Médio Unitário"),
       CkSet("gross_cost", "Custo para o Serviço"),
       CkDel("age_name"),
       CkDel("color_name"),
       CkDel("season"),
       CkDel("stock"),
       CkDel("last_date") >>

\* body of the nested "if self.has_product_code:"
ProductServiceSegmentCodeStmts ==
    << FvRename("Código do Produto *", "SKU *"),
       FvDel("SKU Variante *"),
       FvDel("Variante *"),
       RcRemove("SKU *"),
       RcAdd("Código do Produto *"),
       RcRemove("SKU Variante *"),
       RcRemove("Variante *"),
       ValDel("Variante *"),
       UtfAssign(<<<<"Código do Produto *">>>>),
       CkSet("supplier_sku_model", "Código do Produto *"),
       CkSet("supplier_sku_color", "Código do Produto *"),
       CkSet("supplier_sku_size", "Código do Produto *"),
       CkSet("size_name", "Nome *") >>

ProductNoProductCode(s, c, dimensions) ==
    IF ~c.has_product_code THEN Run(s, ProductNoProductCodeStmts(dimensions)) ELSE s

ProductServiceSegment(s, c) ==
    IF c.is_service_segment
    THEN LET s1 == Run(s, ProductServiceSegmentStmts)
         IN  IF c.has_product_code THEN Run(s1, ProductServiceSegmentCodeStmts) ELSE s1
    ELSE s

(***************************************************************************)
(* _generate_sale_order_xlsx_params                                        *)
(***************************************************************************)
SaleOrderBaseline ==
    [format_value |->
        ("Numero do Pedido *" :> "str") @@ ("Canal *" :> "str") @@ ("Data *" :> "str")
        @@ ("Status *" :> "str") @@ ("SKU Variante *" :> "str")
        @@ ("Quantidade *" :> "int") @@ ("Preço De Unitário" :> "round2")
        @@ ("Preço Por Unitário" :> "round2")
        @@ ("Preço Pago Total Produto *" :> "round2") @@ ("CPF/CNPJ" :> "str")
        @@ ("Email" :> "str") @@ ("Nome" :> "str") @@ ("Telefone do Cliente" :> "str")
        @@ ("Frete Total Pedido" :> "round2") @@ ("Meio de Pagamento" :> "str")
        @@ ("Parcelas" :> "int"),
     required_columns |->
        {"Numero do Pedido *", "Canal *", "Data *", "Status *", "SKU Variante *",
         "Quantidade *", "Preço Pago Total Produto *"},
     validations |->
        <<"Preço De Unitário", "Preço Por Unitário", "Preço Pago Total Produto *",
          "Frete Total Pedido", "Nome", "Email", "Parcelas">>,
     unique_together_fields |-> <<>>,
     column_keys |->
        ("sale_order_number" :> "Numero do Pedido *") @@ ("website_name" :> "Canal *")
        @@ ("date" :> "Data *") @@ ("sale_order_product_size_status" :> "Status *")
        @@ ("supplier_sku_color" :> "SKU Variante *")
        @@ ("supplier_sku_size" :> "SKU Variante *") @@ ("quantity" :> "Quantidade *")
        @@ ("full_price" :> "Preço De Unitário") @@ ("sale_price" :> "Preço Por Unitário")
        @@ ("total_paid_price" :> "Preço Pago Total Produto *")
        @@ ("cpf_cnpj" :> "CPF/CNPJ") @@ ("email" :> "Email") @@ ("name" :> "Nome")
        @@ ("phone" :> "Telefone do Cliente")
        @@ ("shipping_revenue" :> "Frete Total Pedido")
        @@ ("order_payment_method_type" :> "Meio de Pagamento")
        @@ ("order_payment_method_installments" :> "Parcelas")
        @@ ("is_service_order_item" :> "__is_service_order_item__"),
     ignore_dimensions |-> FALSE,
     exc |-> NoExc]

\* mutant: the check of has_product_code is missing
SaleOrderNoCatalogStmts_NoCodeCheck(c) ==
    (IF ~c.is_service_segment THEN <<Raise("ValueError")>> ELSE <<>>)
    \o << FvDel("SKU Variante *"),
          FvDel("Quantidade *"),
          RcRemove("SKU Variante *"),
          RcRemove("Quantidade *") >>

\* body of "if not self.has_catalog:"
SaleOrderNoCatalogStmts(c) ==
    (IF c.has_product_code THEN <<Raise("ValueError")>> ELSE <<>>)
    \o (IF ~c.is_service_segment THEN <<Raise("ValueError")>> ELSE <<>>)
    \o << FvDel("SKU Variante *"),
          FvDel("Quantidade *"),
          RcRemove("SKU Variante *"),
          RcRemove("Quantidade *") >>

\* mutant: column_keys['quantity'] keeps the old header
SaleOrderNoProductCodeStmts_NoQuantityKey ==
    << FvRename("Nome do Produto *", "SKU Variante *"),
       FvRename("Quantidade do Produto *", "Quantidade *"),
       RcRemove("SKU Variante *"),
       RcAdd("Nome do Produto *"),
       RcRemove("Quantidade *"),
       RcAdd("Quantidade do Produto *"),
       CkSet("supplier_sku_color", "Nome do Produto *"),
       CkSet("supplier_sku_size", "Nome do Produto *") >>

\* body of "if self.has_catalog and not self.has_product_code:"
SaleOrderNoProductCodeStmts ==
    << FvRename("Nome do Produto *", "SKU Variante *"),
       FvRename("Quantidade do Produto *", "Quantidade *"),
       RcRemove("SKU Variante *"),
       RcAdd("Nome do Produto *"),
       RcRemove("Quantidade *"),
       RcAdd("Quantidade do Produto *"),
       CkSet("supplier_sku_color", "Nome do Produto *"),
       CkSet("supplier_sku_size", "Nome do Produto *"),
       CkSet("quantity", "Quantidade do Produto *") >>

\* mutant: 'Status *' stays required
SaleOrderNoOrderCodeStmts_KeepsRequired ==
    << FvDel("Numero do Pedido *"),
       FvDel("Status *"),
       RcRemove("Numero do Pedido *") >>

\* body of "if not self.has_order_code:"
SaleOrderNoOrderCodeStmts ==
    << FvDel("Numero do Pedido *"),
       FvDel("Status *"),
       RcRemove("Numero do Pedido *"),
       RcRemove("Status *") >>

\* "if len(websites) == 0: raise ...; if len(websites) == 1: ..."
SaleOrderWebsitesStmts(n) ==
    (IF n = 0 THEN <<Raise("ValueError")>> ELSE <<>>)
    \o (IF n = 1 THEN <<FvDel("Canal *"), RcRemove("Canal *")>> ELSE <<>>)

\* body of "if self.is_service_segment: if self.has_catalog: if self.has_product_code:"
SaleOrderServiceCodeStmts ==
    << FvRename("Código do Produto *", "SKU Variante *"),
       FvRename("Quantidade do Produto *", "Quantidade *"),
       RcRemove("SKU Variante *"),
       RcRemove("Quantidade *"),
       CkSet("supplier_sku_color", "Código do Produto *"),
       CkSet("supplier_sku_size", "Código do Produto *"),
       CkSet("quantity", "Quantidade do Produto *") >>

\* mutant: the headers are removed under the names they had before the rename
SaleOrderServiceNoCodeStmts_OldNames ==
    << RcRemove("SKU Variante *"),
       RcRemove("Quantidade *") >>

\* the else branch of the same if
SaleOrderServiceNoCodeStmts ==
    << RcRemove("Nome do Produto *"),
       RcRemove("Quantidade do Produto *") >>

\* the rest of the body of "if self.is_service_segment:"
SaleOrderServiceSegmentStmts ==
    << FvDel("Preço De Unitário"),
       FvDel("Preço Por Unitário"),
       FvRename("Preço Pago Total *", "Preço Pago Total Produto *"),
       FvDel("Frete Total Pedido"),
       FvSet("Nome do Serviço *", "str"),
       RcRemove("Preço Pago Total Produto *"),
       RcAdd("Preço Pago Total *"),
       ValDel("Preço De Unitário"),
       ValDel("Preço Por Unitário"),
       ValSet("Preço Pago Total *"),
       ValDel("Preço Pago Total Produto *"),
       ValDel("Frete Total Pedido"),
       CkDel("full_price"),
       CkDel("sale_price"),
       CkSet("total_paid_price", "Preço Pago Total *"),
       CkDel("shipping_revenue"),
       CkSet("product_color_name", "Nome do Serviço *") >>

SaleOrderNoCatalog(s, c) ==
    IF ~c.has_catalog THEN Run(s, SaleOrderNoCatalogStmts(c)) ELSE s

SaleOrderNoProductCode(s, c) ==
    IF c.has_catalog /\ ~c.has_product_code THEN Run(s, SaleOrderNoProductCodeStmts) ELSE s

SaleOrderNoOrderCode(s, c) ==
    IF ~c.has_order_code THEN Run(s, SaleOrderNoOrderCodeStmts) ELSE s

SaleOrderWebsites(s, n) == Run(s, SaleOrderWebsitesStmts(n))

SaleOrderServiceSegment(s, c) ==
    IF c.is_service_segment
    THEN LET s1 == IF c.has_catalog
                   THEN IF c.has_product_code
                        THEN Run(s, SaleOrderServiceCodeStmts)
                        ELSE Run(s, SaleOrderServiceNoCodeStmts)
                   ELSE s
         IN  Run(s1, SaleOrderServiceSegmentStmts)
    ELSE s

(***************************************************************************)
(* The order in which the flag-gated blocks stand in the two functions.    *)
(***************************************************************************)
ProductBlockOrder == <<"no_product_code", "service_segment">>

\* mutant: the service-segment block second, the order-code block last
SaleOrderBlockOrder_ServiceSecond ==
    <<"no_catalog", "no_product_code", "service_segment", "websites", "no_order_code">>

SaleOrderBlockOrder ==
    <<"no_catalog", "no_product_code", "no_order_code", "websites", "service_segment">>

BlockOrder(sheet) == IF sheet = PRODUCT THEN ProductBlockOrder ELSE SaleOrderBlockOrder

\* One block of the function of `sheet`, applied to the locals s.
Block(sheet, label, s, c, n, dimensions) ==
    IF sheet = PRODUCT
    THEN CASE label = "no_product_code" -> ProductNoProductCode(s, c, dimensions)
           [] label = "service_segment" -> ProductServiceSegment(s, c)
    ELSE CASE label = "no_catalog" -> SaleOrderNoCatalog(s, c)
           [] label = "no_product_code" -> SaleOrderNoProductCode(s, c)
           [] label = "no_order_code" -> SaleOrderNoOrderCode(s, c)
           [] label = "websites" -> SaleOrderWebsites(s, n)
           [] label = "service_segment" -> SaleOrderServiceSegment(s, c)

Start(sheet, c, dimensions) ==
    IF sheet = PRODUCT THEN ProductStart(c, dimensions) ELSE SaleOrderBaseline

RECURSIVE RunBlocks(_, _, _, _, _, _)
RunBlocks(sheet, labels, s, c, n, dimensions) ==
    IF Len(labels) = 0 THEN s
    ELSE RunBlocks(sheet, Tail(labels),
                   Block(sheet, Head(labels), s, c, n, dimensions), c, n, dimensions)

\* generate_xlsx_params as a function of the flags, the number of active
\* websites and the dimensions: the returned dict, or the exception in exc.
GenerateXlsxParams(sheet, c, n, dimensions) ==
    RunBlocks(sheet, BlockOrder(sheet), Start(sheet, c, dimensions), c, n, dimensions)

(***************************************************************************)
(* openpyxl.utils.get_column_letter as the code calls it: the letters of a *)
(* 1-based column index (1 -> A, 26 -> Z, 27 -> AA, ..., 18278 -> ZZZ);    *)
(* any other index raises ValueError.                                      *)
(***************************************************************************)
Letters ==
    <<"A", "B", "C", "D", "E", "F", "G", "H", "I", "J", "K", "L", "M",
      "N", "O", "P", "Q", "R", "S", "T", "U", "V", "W", "X", "Y", "Z">>

ValidColumnIndex(col) == 1 <= col /\ col <= 18278

RECURSIVE get_column_letter(_)
get_column_letter(col) ==
    IF col <= 0 THEN ""
    ELSE LET r == IF col % 26 = 0 THEN 26 ELSE col % 26
         IN  get_column_letter((col - r) \div 26) \o Letters[r]

(***************************************************************************)
(* SpreadsheetCoordinatesManager.  Each method is a function of self.data  *)
(* and its arguments giving the new self.data, the returned value (an      *)
(* Optional) and the exception raised, if any.                             *)
(***************************************************************************)
Outcome(d, ret, exc) == [data |-> d, ret |-> ret, exc |-> exc]

\* Python truthiness of an Optional[int]: None and 0 are falsy
Truthy(col) == ~IsNone(col) /\ ValueOf(col) # 0

get_column_index(d, key) ==
    IF key \notin DOMAIN d THEN Outcome(d, None, "KeyError")
    ELSE Outcome(d, d[key], NoExc)

\* mutant: an existing key is overwritten
add_column_index_Overwrite(d, key, initial_value) ==
    Outcome(DictSet(d, key, initial_value), None, NoExc)

add_column_index(d, key, initial_value) ==
    IF key \in DOMAIN d THEN Outcome(d, None, "ValueError")
    ELSE Outcome(DictSet(d, key, initial_value), None, NoExc)

\* mutant: a stored None counts as 0
update_column_offset_NoneAsZero(d, key, value) ==
    IF key \notin DOMAIN d THEN Outcome(d, None, "KeyError")
    ELSE IF IsNone(value) THEN Outcome(DictSet(d, key, None), None, NoExc)
    ELSE IF IsNone(d[key]) THEN Outcome(DictSet(d, key, value), None, NoExc)
    ELSE Outcome(DictSet(d, key, Some(ValueOf(d[key]) + ValueOf(value))), None, NoExc)

\* mutant: self.data.get(key) in place of self.data[key]
update_column_offset_GetDefault(d, key, value) ==
    IF key \notin DOMAIN d \/ IsNone(d[key]) \/ IsNone(value)
    THEN Outcome(DictSet(d, key, None), None, NoExc)
    ELSE Outcome(DictSet(d, key, Some(ValueOf(d[key]) + ValueOf(value))), None, NoExc)

update_column_offset(d, key, value) ==
    IF key \notin DOMAIN d THEN Outcome(d, None, "KeyError")
    ELSE IF IsNone(d[key]) \/ IsNone(value)
         THEN Outcome(DictSet(d, key, None), None, NoExc)
         ELSE Outcome(DictSet(d, key, Some(ValueOf(d[key]) + ValueOf(value))), None, NoExc)

get_coordinate(d, key, row) ==
    IF key \notin DOMAIN d THEN Outcome(d, None, "KeyError")
    ELSE LET col == d[key]
         IN  IF Truthy(col)
             THEN IF ValidColumnIndex(ValueOf(col))
                  THEN Outcome(d, Some(get_column_letter(ValueOf(col)) \o ToString(row)), NoExc)
                  ELSE Outcome(d, None, "ValueError")
             ELSE Outcome(d, None, NoExc)

get_coordinate_range(d, key) ==
    IF key \notin DOMAIN d THEN Outcome(d, None, "KeyError")
    ELSE LET col == d[key]
         IN  IF Truthy(col)
             THEN IF ValidColumnIndex(ValueOf(col))
                  THEN Outcome(d,
                               Some(get_column_letter(ValueOf(col)) \o ToString(TABLE_START_ROW)
                                    \o ":" \o get_column_letter(ValueOf(col))
                                    \o ToString(EXCEL_MAX_ROWS)),
                               NoExc)
                  ELSE Outcome(d, None, "ValueError")
             ELSE Outcome(d, None, NoExc)

(***************************************************************************)
(* The workbook.  A sheet is the sequence of the values of its column-name *)
(* row (HEADER_COLUMN_ROW), one per column.  MasterWorkbook is the static  *)
(* file core/static/sheets/Modelo de Produto e Pedido.xlsx: its columns    *)
(* are those of the baseline schemas, the three dimension columns under    *)
(* the names the mutator looks them up by, in the order that puts          *)
(* 'Canal *', 'Status *' and 'SKU Variante *' at the columns 2, 4 and 5    *)
(* that _update_sale_order_template starts from.                           *)
(***************************************************************************)
MasterProductHeaders ==
    <<"SKU *", "SKU Variante *", "Nome *", "Variante *", "Preço DE *", "Preço POR",
      "Custo Médio Unitário", "Departamento *", "Categoria *", "Subcategoria *",
      "Idade", "Cor", "Coleção", "Estoque Disponível", "Data do Último Recebimento">>

MasterSaleOrderHeaders ==
    <<"Numero do Pedido *", "Canal *", "Data *", "Status *", "SKU Variante *",
      "Quantidade *", "Preço De Unitário", "Preço Por Unitário",
      "Preço Pago Total Produto *", "CPF/CNPJ", "Email", "Nome",
      "Telefone do Cliente", "Frete Total Pedido", "Meio de Pagamento", "Parcelas">>

MasterOptions ==
    [website_last_row |-> OPTIONS_HEADER_COLUMN_ROW,
     sku_last_row |-> OPTIONS_HEADER_COLUMN_ROW,
     header_E |-> None, array_formula |-> None, sheet_state |-> "visible"]

MasterWorkbook ==
    [sheetnames |-> {"Produtos", "Pedidos", "Opções"},
     product |-> MasterProductHeaders,
     sale_order |-> MasterSaleOrderHeaders,
     options |-> MasterOptions,
     validations |-> <<>>,
     not_found |-> {},
     default_value |-> None,
     product_date_column |-> None,
     sale_order_date_column |-> None]

\* shadow_helpers.normalize_string on the headers of the workbook: lower
\* case, diacritics removed.
NormalizedHeader ==
    ("SKU *" :> "sku *")
    @@ ("SKU Variante *" :> "sku variante *")
    @@ ("Nome *" :> "nome *")
    @@ ("Variante *" :> "variante *")
    @@ ("Preço DE *" :> "preco de *")
    @@ ("Preço POR" :> "preco por")
    @@ ("Custo Médio Unitário" :> "custo medio unitario")
    @@ ("Departamento *" :> "departamento *")
    @@ ("Categoria *" :> "categoria *")
    @@ ("Subcategoria *" :> "subcategoria *")
    @@ ("Idade" :> "idade")
    @@ ("Cor" :> "cor")
    @@ ("Coleção" :> "colecao")
    @@ ("Estoque Disponível" :> "estoque disponivel")
    @@ ("Data do Último Recebimento" :> "data do ultimo recebimento")
    @@ ("Nome do Produto *" :> "nome do produto *")
    @@ ("Código do Produto *" :> "codigo do produto *")
    @@ ("Custo para o Serviço" :> "custo para o servico")
    @@ ("Numero do Pedido *" :> "numero do pedido *")
    @@ ("Canal *" :> "canal *")
    @@ ("Data *" :> "data *")
    @@ ("Status *" :> "status *")
    @@ ("Quantidade *" :> "quantidade *")
    @@ ("Preço De Unitário" :> "preco de unitario")
    @@ ("Preço Por Unitário" :> "preco por unitario")
    @@ ("Preço Pago Total Produto *" :> "preco pago total produto *")
    @@ ("CPF/CNPJ" :> "cpf/cnpj")
    @@ ("Email" :> "email")
    @@ ("Nome" :> "nome")
    @@ ("Telefone do Cliente" :> "telefone do cliente")
    @@ ("Frete Total Pedido" :> "frete total pedido")
    @@ ("Meio de Pagamento" :> "meio de pagamento")
    @@ ("Parcelas" :> "parcelas")
    @@ ("Quantidade do Produto *" :> "quantidade do produto *")
    @@ ("Preço Pago Total *" :> "preco pago total *")
    @@ ("Nome do Serviço *" :> "nome do servico *")
    @@ ("Dimensão 1 *" :> "dimensao 1 *")
    @@ ("Dimensão 2 *" :> "dimensao 2 *")
    @@ ("Dimensão 3 *" :> "dimensao 3 *")

normalize_string(value) ==
    IF value \in DOMAIN NormalizedHeader THEN NormalizedHeader[value] ELSE value

\* Seller.get_humanized_dimension_name(dimension), dimension in 1..3
get_humanized_dimension_name(dimension) == "Dimensão " \o ToString(dimension)

\* _find_header_index_by_value: the first column of the column-name row whose
\* normalized value equals the normalized `value`; 0 stands for
\* SpreadsheetColumnNotFound
_find_header_index_by_value(headers, value) ==
    LET hits == {i \in 1..Len(headers) :
                    normalize_string(headers[i]) = normalize_string(value)}
    IN  IF hits = {} THEN 0 ELSE CHOOSE i \in hits : \A j \in hits : i <= j

\* mutant: the column after the one found is deleted
DeleteCols_Next(headers, index) ==
    [i \in 1..(Len(headers) - 1) |-> IF i <= index THEN headers[i] ELSE headers[i + 1]]

\* ws.delete_cols(index) on the column-name row
DeleteCols(headers, index) ==
    [i \in 1..(Len(headers) - 1) |-> IF i < index THEN headers[i] ELSE headers[i + 1]]

\* mutant: the new column is inserted after the column found
InsertCols_After(headers, index, value) ==
    [i \in 1..(Len(headers) + 1) |->
        IF i <= index THEN headers[i] ELSE IF i = index + 1 THEN value ELSE headers[i - 1]]

\* ws.insert_cols(index) followed by the write of the new header cell
InsertCols(headers, index, value) ==
    [i \in 1..(Len(headers) + 1) |->
        IF i < index THEN headers[i] ELSE IF i = index THEN value ELSE headers[i - 1]]

\* mutant: the header cell keeps its value
SetHeader_Unwritten(headers, index, value) == headers

\* the write of _rename_column_header
SetHeader(headers, index, value) == [headers EXCEPT ![index] = value]

(***************************************************************************)
(* The statements of the mutator on ts = [wb, coord, exc]: the structural  *)
(* edits of a sheet (named by the field of wb that holds it) and the calls *)
(* on the coordinates manager.                                             *)
(***************************************************************************)
Tst(op, sheet, k, v) == [op |-> op, sheet |-> sheet, k |-> k, v |-> v]

\* self._delete_column_with_merged_ranges(sheet, name)
DeleteColumn(sheet, name) == Tst("delete", sheet, name, "")
\* self._rename_column_header(sheet, name, value)
RenameColumn(sheet, name, value) == Tst("rename", sheet, name, value)
\* self._add_column_with_merged_ranges(sheet, name, value)
AddColumn(sheet, name, value) == Tst("add", sheet, name, value)
\* coord.update_column_offset(key, value)
CoordOffset(key, value) == Tst("coord_offset", "", key, value)
\* coord.add_column_index(key, self._find_header_index_by_value(sheet, name))
CoordAddFound(key, sheet, name) == Tst("coord_add_found", sheet, key, name)
\* raise exc(...)
TRaise(exc) == Tst("raise", "", "", exc)

\* raise SpreadsheetColumnNotFound(f'Column with value "{value}" not found');
\* wb.not_found keeps the values whose lookup has failed
NotFound(ts, value) ==
    [ts EXCEPT !.exc = "SpreadsheetColumnNotFound", !.wb.not_found = @ \cup {value}]

TExec(ts, st) ==
    IF ts.exc # NoExc THEN ts
    ELSE CASE st.op = "delete" ->
                LET index == _find_header_index_by_value(ts.wb[st.sheet], st.k)
                IN  IF index = 0 THEN NotFound(ts, st.k)
                    ELSE [ts EXCEPT !.wb[st.sheet] = DeleteCols(@, index)]
           [] st.op = "rename" ->
                LET index == _find_header_index_by_value(ts.wb[st.sheet], st.k)
                IN  IF index = 0 THEN NotFound(ts, st.k)
                    ELSE [ts EXCEPT !.wb[st.sheet] = SetHeader(@, index, st.v)]
           [] st.op = "add" ->
                LET index == _find_header_index_by_value(ts.wb[st.sheet], st.k)
                IN  IF index = 0 THEN NotFound(ts, st.k)
                    ELSE [ts EXCEPT !.wb[st.sheet] = InsertCols(@, index, st.v)]
           [] st.op = "coord_offset" ->
                LET out == update_column_offset(ts.coord, st.k, st.v)
                IN  [ts EXCEPT !.coord = out.data, !.exc = out.exc]
           [] st.op = "coord_add_found" ->
                LET index == _find_header_index_by_value(ts.wb[st.sheet], st.v)
                    out == add_column_index(ts.coord, st.k, Some(index))
                IN  IF index = 0 THEN NotFound(ts, st.v)
                    ELSE [ts EXCEPT !.coord = out.data, !.exc = out.exc]
           [] st.op = "raise" ->
                [ts EXCEPT !.exc = st.v]

RECURSIVE TRun(_, _)
TRun(ts, stmts) ==
    IF Len(stmts) = 0 THEN ts ELSE TRun(TExec(ts, Head(stmts)), Tail(stmts))

When(cond, stmts) == IF cond THEN stmts ELSE <<>>

(***************************************************************************)
(* _update_options_template                                                *)
(***************************************************************************)
\* 2.2.1 - 2.2.2: the locals computed from the number n of SKU sizes
OptionsRowIndexes(c, n) ==
    LET options_list_start_row_index == OPTIONS_TABLE_START_ROW + n
        options_list_end_row_index == EXCEL_MAX_ROWS
        sku_list_start_row_index == TABLE_START_ROW
        sku_list_end_row_index ==
            TABLE_START_ROW + (EXCEL_MAX_ROWS - options_list_start_row_index)
        clamp == sku_list_end_row_index > EXCEL_MAX_ROWS
        diff == EXCEL_MAX_ROWS - sku_list_end_row_index
    IN  [sku_list_column_letter |->
            IF ~c.has_product_code \/ c.is_service_segment THEN "A" ELSE "B",
         options_list_start_row_index |-> options_list_start_row_index,
         options_list_end_row_index |->
            IF clamp THEN options_list_end_row_index + diff
            ELSE options_list_end_row_index,
         sku_list_start_row_index |-> sku_list_start_row_index,
         sku_list_end_row_index |->
            IF clamp THEN sku_list_end_row_index + diff ELSE sku_list_end_row_index,
         computed_sku_list_end_row_index |-> sku_list_end_row_index]

\* 2.2.3: the condition of the row range mismatch error
RowRangeMismatch(o) ==
    o.options_list_end_row_index - o.options_list_start_row_index
        # o.sku_list_end_row_index - o.sku_list_start_row_index

\* 2.2.4 - 2.2.5: the array formula written at the start of the mirror range
OptionsArrayFormula(o) ==
    LET options_list == "E" \o ToString(o.options_list_start_row_index)
                        \o ":E" \o ToString(o.options_list_end_row_index)
        sku_list == "Produtos!" \o o.sku_list_column_letter
                    \o ToString(o.sku_list_start_row_index) \o ":"
                    \o o.sku_list_column_letter \o ToString(o.sku_list_end_row_index)
    IN  [cell |-> "E" \o ToString(o.options_list_start_row_index),
         ref |-> options_list,
         text |-> "=IF(" \o sku_list \o "=\"\", \"\", " \o sku_list \o ")"]

\* openpyxl, Worksheet._get_cell: "Row numbers must be between 1 and
\* 1048576", the bound that EXCEL_MAX_ROWS names too; a cell of another
\* row cannot be written, ws[...] = value raises ValueError
ValidRowIndex(row) == 0 < row /\ row <= EXCEL_MAX_ROWS

\* the whole method: ts after it and the locals it computed (<<>> if it did
\* not get that far).  The SKU sizes are written to E2, E3, ... before the
\* test of their number, the anchor cell of the array formula after it.
_update_options_template(ts, c, nwebsites, n) ==
    LET o == OptionsRowIndexes(c, n)
        last_sku_row == OPTIONS_TABLE_START_ROW + n - 1
        filled == [ts EXCEPT
                     !.wb.options.website_last_row =
                        OPTIONS_TABLE_START_ROW + nwebsites - 1,
                     !.wb.options.header_E = Some("Produto"),
                     !.wb.options.sku_last_row =
                        IF n > 0 /\ ~ValidRowIndex(last_sku_row)
                        THEN EXCEL_MAX_ROWS ELSE last_sku_row]
    IN  IF "Opções" \notin ts.wb.sheetnames
        THEN [ts |-> [ts EXCEPT !.exc = "KeyError"], locals |-> <<>>]
        ELSE IF n > 0 /\ ~ValidRowIndex(last_sku_row)
        THEN [ts |-> [filled EXCEPT !.exc = "ValueError"], locals |-> <<>>]
        ELSE IF n > EXCEL_MAX_ROWS
        THEN [ts |-> [filled EXCEPT !.exc = "NotImplementedError"], locals |-> <<>>]
        ELSE IF RowRangeMismatch(o)
        THEN [ts |-> [filled EXCEPT !.exc = "ValueError"], locals |-> o]
        ELSE IF ~ValidRowIndex(o.options_list_start_row_index)
        THEN [ts |-> [filled EXCEPT !.exc = "ValueError"], locals |-> o]
        ELSE [ts |-> [filled EXCEPT
                        !.wb.options.array_formula = Some(OptionsArrayFormula(o)),
                        !.wb.options.sheet_state = "hidden"],
              locals |-> o]

(***************************************************************************)
(* _update_product_template                                                *)
(***************************************************************************)
\* mutant: without a product code the column 'SKU *' is kept
ProductTemplateStmts_KeepsSku(c) ==
    When(~c.has_product_code,
         << DeleteColumn("product", "SKU Variante *"),
            RenameColumn("product", "Nome *", "Nome do Produto *"),
            DeleteColumn("product", "Variante *"),
            DeleteColumn("product", "Departamento *"),
            DeleteColumn("product", "Categoria *"),
            DeleteColumn("product", "Subcategoria *") >>)
    \o When(c.is_service_segment,
            << DeleteColumn("product", "Idade"),
               DeleteColumn("product", "Cor"),
               DeleteColumn("product", "Coleção"),
               DeleteColumn("product", "Estoque Disponível"),
               DeleteColumn("product", "Data do Último Recebimento") >>
            \o When(c.has_product_code,
                    << RenameColumn("product", "SKU *", "Código do Produto *"),
                       DeleteColumn("product", "SKU Variante *"),
                       DeleteColumn("product", "Variante *") >>)
            \o << RenameColumn("product", "Custo Médio Unitário",
                               "Custo para o Serviço") >>)
    \o When(c.has_product_code,
            << RenameColumn("product", "Departamento *",
                            get_humanized_dimension_name(1) \o " *"),
               RenameColumn("product", "Categoria *",
                            get_humanized_dimension_name(2) \o " *"),
               RenameColumn("product", "Subcategoria *",
                            get_humanized_dimension_name(3) \o " *") >>)

\* 2. Dynamic Columns and 3. Update dimensions columns names
ProductTemplateStmts(c) ==
    When(~c.has_product_code,
         << DeleteColumn("product", "SKU *"),
            DeleteColumn("product", "SKU Variante *"),
            RenameColumn("product", "Nome *", "Nome do Produto *"),
            DeleteColumn("product", "Variante *"),
            DeleteColumn("product", "Departamento *"),
            DeleteColumn("product", "Categoria *"),
            DeleteColumn("product", "Subcategoria *") >>)
    \o When(c.is_service_segment,
            << DeleteColumn("product", "Idade"),
               DeleteColumn("product", "Cor"),
               DeleteColumn("product", "Coleção"),
               DeleteColumn("product", "Estoque Disponível"),
               DeleteColumn("product", "Data do Último Recebimento") >>
            \o When(c.has_product_code,
                    << RenameColumn("product", "SKU *", "Código do Produto *"),
                       DeleteColumn("product", "SKU Variante *"),
                       DeleteColumn("product", "Variante *") >>)
            \o << RenameColumn("product", "Custo Médio Unitário",
                               "Custo para o Serviço") >>)
    \o When(c.has_product_code,
            << RenameColumn("product", "Departamento *",
                            get_humanized_dimension_name(1) \o " *"),
               RenameColumn("product", "Categoria *",
                            get_humanized_dimension_name(2) \o " *"),
               RenameColumn("product", "Subcategoria *",
                            get_humanized_dimension_name(3) \o " *") >>)

\* 4. Update columns format: the letter of the date column, None if the
\* column is not found
ProductDateColumn(headers) ==
    LET index == _find_header_index_by_value(headers, "Data do Último Recebimento")
    IN  IF index = 0 THEN None ELSE Some(get_column_letter(index))

\* the try / except SpreadsheetColumnNotFound around that lookup: the failure
\* is caught and the method goes on
CaughtNotFound(ts, value) == [NotFound(ts, value) EXCEPT !.exc = ts.exc]

_update_product_template(ts, c) ==
    IF ts.exc # NoExc THEN ts
    ELSE IF "Produtos" \notin ts.wb.sheetnames THEN [ts EXCEPT !.exc = "KeyError"]
    ELSE IF ~c.has_catalog
    THEN [ts EXCEPT !.wb.sheetnames = @ \ {"Produtos"}, !.wb.product = <<>>]
    ELSE LET ts1 == TRun(ts, ProductTemplateStmts(c))
         IN  IF ts1.exc # NoExc THEN ts1
             ELSE LET date_column_letter == ProductDateColumn(ts1.wb.product)
                      ts2 == IF IsNone(date_column_letter)
                             THEN CaughtNotFound(ts1, "Data do Último Recebimento")
                             ELSE ts1
                  IN  [ts2 EXCEPT !.wb.product_date_column = date_column_letter]

(***************************************************************************)
(* _update_sale_order_template                                             *)
(***************************************************************************)
\* mutant: 'status' starts on the column of 'Data *'
InitialCoordinates_StatusOnDate ==
    ("website" :> Some(2)) @@ ("status" :> Some(3)) @@ ("sku" :> Some(5))

InitialCoordinates == ("website" :> Some(2)) @@ ("status" :> Some(4)) @@ ("sku" :> Some(5))

\* mutant: the service block keeps the two unit price columns
SaleOrderTemplateStmts_KeepsUnitPrices(c, nwebsites) ==
    When(~c.has_catalog,
         When(c.has_product_code, <<TRaise("ValueError")>>)
         \o When(~c.is_service_segment, <<TRaise("ValueError")>>)
         \o << DeleteColumn("sale_order", "SKU Variante *"),
               DeleteColumn("sale_order", "Quantidade *"),
               CoordOffset("sku", None) >>)
    \o When(c.has_catalog /\ ~c.has_product_code,
            << RenameColumn("sale_order", "SKU Variante *", "Nome do Produto *"),
               RenameColumn("sale_order", "Quantidade *", "Quantidade do Produto *") >>)
    \o When(~c.has_order_code,
            << DeleteColumn("sale_order", "Numero do Pedido *"),
               DeleteColumn("sale_order", "Status *"),
               CoordOffset("website", Some(0 - 1)),
               CoordOffset("status", None),
               CoordOffset("sku", Some(0 - 2)) >>)
    \o When(nwebsites = 0, <<TRaise("ValueError")>>)
    \o When(nwebsites = 1,
            << DeleteColumn("sale_order", "Canal *"),
               CoordOffset("website", None),
               CoordOffset("status", Some(0 - 1)),
               CoordOffset("sku", Some(0 - 1)) >>)
    \o When(c.is_service_segment,
            When(c.has_catalog,
                 When(c.has_product_code,
                      << RenameColumn("sale_order", "SKU Variante *",
                                      "Código do Produto *"),
                         RenameColumn("sale_order", "Quantidade *",
                                      "Quantidade do Produto *") >>)
                 \o << CoordAddFound("quantity", "sale_order",
                                     "Quantidade do Produto *") >>)
            \o << RenameColumn("sale_order", "Preço Pago Total Produto *",
                               "Preço Pago Total *"),
                  DeleteColumn("sale_order", "Frete Total Pedido"),
                  AddColumn("sale_order", "Preço Pago Total *", "Nome do Serviço *"),
                  CoordAddFound("service", "sale_order", "Nome do Serviço *") >>)

\* mutant: without a catalog only 'Quantidade *' is deleted
SaleOrderTemplateStmts_KeepsSku(c, nwebsites) ==
    When(~c.has_catalog,
         When(c.has_product_code, <<TRaise("ValueError")>>)
         \o When(~c.is_service_segment, <<TRaise("ValueError")>>)
         \o << DeleteColumn("sale_order", "Quantidade *"),
               CoordOffset("sku", None) >>)
    \o When(c.has_catalog /\ ~c.has_product_code,
            << RenameColumn("sale_order", "SKU Variante *", "Nome do Produto *"),
               RenameColumn("sale_order", "Quantidade *", "Quantidade do Produto *") >>)
    \o When(~c.has_order_code,
            << DeleteColumn("sale_order", "Numero do Pedido *"),
               DeleteColumn("sale_order", "Status *"),
               CoordOffset("website", Some(0 - 1)),
               CoordOffset("status", None),
               CoordOffset("sku", Some(0 - 2)) >>)
    \o When(nwebsites = 0, <<TRaise("ValueError")>>)
    \o When(nwebsites = 1,
            << DeleteColumn("sale_order", "Canal *"),
               CoordOffset("website", None),
               CoordOffset("status", Some(0 - 1)),
               CoordOffset("sku", Some(0 - 1)) >>)
    \o When(c.is_service_segment,
            When(c.has_catalog,
                 When(c.has_product_code,
                      << RenameColumn("sale_order", "SKU Variante *",
                                      "Código do Produto *"),
                         RenameColumn("sale_order", "Quantidade *",
                                      "Quantidade do Produto *") >>)
                 \o << CoordAddFound("quantity", "sale_order",
                                     "Quantidade do Produto *") >>)
            \o << DeleteColumn("sale_order", "Preço De Unitário"),
                  DeleteColumn("sale_order", "Preço Por Unitário"),
                  RenameColumn("sale_order", "Preço Pago Total Produto *",
                               "Preço Pago Total *"),
                  DeleteColumn("sale_order", "Frete Total Pedido"),
                  AddColumn("sale_order", "Preço Pago Total *", "Nome do Serviço *"),
                  CoordAddFound("service", "sale_order", "Nome do Serviço *") >>)

\* 1. Dynamic Columns
SaleOrderTemplateStmts(c, nwebsites) ==
    When(~c.has_catalog,
         When(c.has_product_code, <<TRaise("ValueError")>>)
         \o When(~c.is_service_segment, <<TRaise("ValueError")>>)
         \o << DeleteColumn("sale_order", "SKU Variante *"),
               DeleteColumn("sale_order", "Quantidade *"),
               CoordOffset("sku", None) >>)
    \o When(c.has_catalog /\ ~c.has_product_code,
            << RenameColumn("sale_order", "SKU Variante *", "Nome do Produto *"),
               RenameColumn("sale_order", "Quantidade *", "Quantidade do Produto *") >>)
    \o When(~c.has_order_code,
            << DeleteColumn("sale_order", "Numero do Pedido *"),
               DeleteColumn("sale_order", "Status *"),
               CoordOffset("website", Some(0 - 1)),
               CoordOffset("status", None),
               CoordOffset("sku", Some(0 - 2)) >>)
    \o When(nwebsites = 0, <<TRaise("ValueError")>>)
    \o When(nwebsites = 1,
            << DeleteColumn("sale_order", "Canal *"),
               CoordOffset("website", None),
               CoordOffset("status", Some(0 - 1)),
               CoordOffset("sku", Some(0 - 1)) >>)
    \o When(c.is_service_segment,
            When(c.has_catalog,
                 When(c.has_product_code,
                      << RenameColumn("sale_order", "SKU Variante *",
                                      "Código do Produto *"),
                         RenameColumn("sale_order", "Quantidade *",
                                      "Quantidade do Produto *") >>)
                 \o << CoordAddFound("quantity", "sale_order",
                                     "Quantidade do Produto *") >>)
            \o << DeleteColumn("sale_order", "Preço De Unitário"),
                  DeleteColumn("sale_order", "Preço Por Unitário"),
                  RenameColumn("sale_order", "Preço Pago Total Produto *",
                               "Preço Pago Total *"),
                  DeleteColumn("sale_order", "Frete Total Pedido"),
                  AddColumn("sale_order", "Preço Pago Total *", "Nome do Serviço *"),
                  CoordAddFound("service", "sale_order", "Nome do Serviço *") >>)

\* a DataValidation added to the sale order sheet: what it validates, its
\* type and formula1, and the range it was attached to with .add()
Validation(name, type, formula1, sqref) ==
    [name |-> name, type |-> type, formula1 |-> formula1, sqref |-> sqref]

\* mutant: the validation is built and never added to the sheet
AttachValidation_NotAdded(ts, name, type, formula1, key) ==
    IF ts.exc # NoExc THEN ts
    ELSE [ts EXCEPT !.exc = get_coordinate_range(ts.coord, key).exc]

\* sale_order_sheet.add_data_validation(v); v.add(coord.get_coordinate_range(key))
AttachValidation(ts, name, type, formula1, key) ==
    IF ts.exc # NoExc THEN ts
    ELSE LET out == get_coordinate_range(ts.coord, key)
         IN  IF out.exc # NoExc
             THEN [ts EXCEPT
                     !.wb.validations = Append(@, Validation(name, type, formula1, None)),
                     !.exc = out.exc]
             ELSE [ts EXCEPT
                     !.wb.validations = Append(@, Validation(name, type, formula1, out.ret))]

\* the condition "if coord.get_column_index(key):"
HasColumn(ts, key) == Truthy(get_column_index(ts.coord, key).ret)

\* mutant: the validation is attached without the test of the coordinate
WebsiteValidation_Unconditional(ts, nwebsites) ==
    IF ts.exc # NoExc THEN ts
    ELSE AttachValidation(ts, "website", "list",
            "Opções!$C$" \o ToString(OPTIONS_TABLE_START_ROW) \o ":$C$"
                \o ToString(OPTIONS_HEADER_COLUMN_ROW + nwebsites),
            "website")

\* 2.1 Website Validation
WebsiteValidation(ts, nwebsites) ==
    IF ts.exc # NoExc \/ ~HasColumn(ts, "website") THEN ts
    ELSE AttachValidation(ts, "website", "list",
            "Opções!$C$" \o ToString(OPTIONS_TABLE_START_ROW) \o ":$C$"
                \o ToString(OPTIONS_HEADER_COLUMN_ROW + nwebsites),
            "website")

\* 2.2 Status Validation
StatusValidation(ts) ==
    IF ts.exc # NoExc \/ ~HasColumn(ts, "status") THEN ts
    ELSE IF "Opções" \notin ts.wb.sheetnames THEN [ts EXCEPT !.exc = "KeyError"]
    ELSE AttachValidation(ts, "status", "list",
            "Opções!$A$" \o ToString(OPTIONS_TABLE_START_ROW) \o ":$A$"
                \o ToString(OPTIONS_HEADER_COLUMN_ROW + 3),
            "status")

\* _find_header_index_by_column_key: the index of the column whose header is
\* column_keys[column_key] of a freshly generated schema of `sheet`
_find_header_index_by_column_key(headers, sheet, column_key, c, nwebsites) ==
    LET params == GenerateXlsxParams(sheet, c, nwebsites, FAKE_DIMENSIONS)
    IN  IF params.exc # NoExc THEN [index |-> 0, exc |-> params.exc, value |-> ""]
        ELSE IF column_key \notin DOMAIN params.column_keys
        THEN [index |-> 0, exc |-> "KeyError", value |-> ""]
        ELSE LET value == params.column_keys[column_key]
                 index == _find_header_index_by_value(headers, value)
             IN  IF index = 0
                 THEN [index |-> 0, exc |-> "SpreadsheetColumnNotFound", value |-> value]
                 ELSE [index |-> index, exc |-> NoExc, value |-> value]

\* the exception of a failed _find_header_index_by_column_key leaves the method
LookupRaised(ts, found) ==
    IF found.exc = "SpreadsheetColumnNotFound" THEN NotFound(ts, found.value)
    ELSE [ts EXCEPT !.exc = found.exc]

\* the three formulas of the service-segment validations (2.3), read as Excel
\* reads them: the columns, relative to the validated cell, that must be
\* blank for a value to be accepted in it.  The SKU list offers the SKUs only
\* if the cell two columns to the right is blank and a blank cell otherwise.
RequiredBlankOffsets(v) ==
    IF v.type = "list"
       /\ v.formula1 = "IF(ISBLANK(INDIRECT(ADDRESS(ROW(),COLUMN()+2,4))), "
                        \o "Opções!$E$" \o ToString(OPTIONS_TABLE_START_ROW)
                        \o ":$E$" \o ToString(EXCEL_MAX_ROWS) \o ", "
                        \o "Opções!$A$" \o ToString(EXCEL_MAX_ROWS) \o ")"
    THEN {2}
    ELSE IF v.type = "custom"
       /\ v.formula1 = "=AND(ISNUMBER(INDIRECT(ADDRESS(ROW(),COLUMN(),4))), ISBLANK(INDIRECT(ADDRESS(ROW(),COLUMN()+1,4))))"
    THEN {1}
    ELSE IF v.type = "custom"
       /\ v.formula1 = "=AND(ISBLANK(INDIRECT(ADDRESS(ROW(),COLUMN()-1,4))), ISBLANK(INDIRECT(ADDRESS(ROW(),COLUMN()-2,4))))"
    THEN {0 - 1, 0 - 2}
    ELSE {}

\* 2.3 SKU Validation
SkuValidation(ts, c, nwebsites) ==
    IF ts.exc # NoExc \/ ~HasColumn(ts, "sku") THEN ts
    ELSE LET sku_list == "Opções!$E$" \o ToString(OPTIONS_TABLE_START_ROW)
                         \o ":$E$" \o ToString(EXCEL_MAX_ROWS)
             blank_list == "Opções!$A$" \o ToString(EXCEL_MAX_ROWS)
             sku_header == _find_header_index_by_column_key(
                               ts.wb.sale_order, SALE_ORDER, "supplier_sku_size",
                               c, nwebsites)
             quantity_header == _find_header_index_by_column_key(
                               ts.wb.sale_order, SALE_ORDER, "quantity", c, nwebsites)
             service_header == _find_header_index_by_column_key(
                               ts.wb.sale_order, SALE_ORDER, "product_color_name",
                               c, nwebsites)
         IN  IF c.is_service_segment /\ c.has_catalog
             THEN IF sku_header.exc # NoExc THEN LookupRaised(ts, sku_header)
                  ELSE IF quantity_header.exc # NoExc
                  THEN LookupRaised(ts, quantity_header)
                  ELSE IF service_header.exc # NoExc
                  THEN LookupRaised(ts, service_header)
                  ELSE AttachValidation(
                         AttachValidation(
                           AttachValidation(ts, "sku", "list",
                             "IF(ISBLANK(INDIRECT(ADDRESS(ROW(),COLUMN()+2,4))), "
                                 \o sku_list \o ", " \o blank_list \o ")",
                             "sku"),
                           "quantity", "custom",
                           "=AND(ISNUMBER(INDIRECT(ADDRESS(ROW(),COLUMN(),4))), ISBLANK(INDIRECT(ADDRESS(ROW(),COLUMN()+1,4))))",
                           "quantity"),
                         "service", "custom",
                         "=AND(ISBLANK(INDIRECT(ADDRESS(ROW(),COLUMN()-1,4))), ISBLANK(INDIRECT(ADDRESS(ROW(),COLUMN()-2,4))))",
                         "service")
             ELSE AttachValidation(ts, "sku", "list", sku_list, "sku")

\* 3. Update default values: the first data cell of the SKU column takes the
\* value of the first data cell of the product sheet's SKU column
DefaultValue(ts, c, nwebsites) ==
    IF ts.exc # NoExc \/ ~HasColumn(ts, "sku") THEN ts
    ELSE IF "Produtos" \notin ts.wb.sheetnames THEN [ts EXCEPT !.exc = "KeyError"]
    ELSE LET found == _find_header_index_by_column_key(
                          ts.wb.product, PRODUCT, "supplier_sku_size", c, nwebsites)
             target == get_coordinate(ts.coord, "sku", TABLE_START_ROW)
         IN  IF found.exc # NoExc THEN LookupRaised(ts, found)
             ELSE IF target.exc # NoExc THEN [ts EXCEPT !.exc = target.exc]
             ELSE [ts EXCEPT !.wb.default_value =
                     Some([source |-> get_column_letter(found.index)
                                      \o ToString(TABLE_START_ROW),
                           target |-> target.ret])]

\* 4. Update columns format
SaleOrderDateColumn(ts) ==
    IF ts.exc # NoExc THEN ts
    ELSE LET index == _find_header_index_by_value(ts.wb.sale_order, "Data *")
         IN  IF index = 0 THEN NotFound(ts, "Data *")
             ELSE [ts EXCEPT !.wb.sale_order_date_column = Some(get_column_letter(index))]

_update_sale_order_template(ts, c, nwebsites) ==
    IF ts.exc # NoExc THEN ts
    ELSE IF "Pedidos" \notin ts.wb.sheetnames THEN [ts EXCEPT !.exc = "KeyError"]
    ELSE LET ts0 == [ts EXCEPT !.coord = InitialCoordinates]
             ts1 == TRun(ts0, SaleOrderTemplateStmts(c, nwebsites))
             ts2 == WebsiteValidation(ts1, nwebsites)
             ts3 == StatusValidation(ts2)
             ts4 == SkuValidation(ts3, c, nwebsites)
             ts5 == DefaultValue(ts4, c, nwebsites)
         IN  SaleOrderDateColumn(ts5)

(***************************************************************************)
(* State machine of one generate_xlsx_params call.  gpc is "call" before   *)
(* the call, then the label of the block about to run, then "return", and  *)
(* finally "returned" or "raised".                                         *)
(***************************************************************************)
\* the position after the block `label` has produced the locals s
After(sheet, label, s) ==
    IF s.exc # NoExc THEN "raised"
    ELSE LET order == BlockOrder(sheet)
             i == CHOOSE j \in 1..Len(order) : order[j] = label
         IN  IF i = Len(order) THEN "return" ELSE order[i + 1]

NoCall == [op |-> "none", key |-> "", arg |-> None, ret |-> None, exc |-> NoExc]

RegIdle ==
    /\ data = <<>>
    /\ call = NoCall
    /\ hist = <<>>
    /\ ncalls = 0

TplIdle ==
    /\ sku_sizes = 0
    /\ tpc = "idle"
    /\ wb = <<>>
    /\ coord = <<>>
    /\ opt = <<>>
    /\ texc = NoExc

GenIdle ==
    /\ active_sheet = PRODUCT
    /\ gpc = "idle"
    /\ schema = EmptySchema

WsIdle ==
    /\ ws = <<>>
    /\ ws0 = <<>>
    /\ wops = <<>>
    /\ wpc = "idle"
    /\ wexc = NoExc

\* no walk is running
WalkIdle ==
    /\ tree = <<>>
    /\ stack = <<>>
    /\ futures = <<>>
    /\ yielded = <<>>
    /\ fpc = "idle"
    /\ consumer = "none"
    /\ fexc = NoExc

CompanyIdle ==
    /\ company = ProductAndSaleOrderBase(FALSE, TRUE, FALSE, TRUE, TRUE)
    /\ websites = 0
    /\ sheet_names = <<>>

\* generate_xlsx_params up to the first flag-gated block
GenerateXlsxParamsCall ==
    /\ gpc = "call"
    /\ LET s == Start(active_sheet, company, FAKE_DIMENSIONS)
       IN  /\ schema' = s
           /\ gpc' = IF s.exc # NoExc THEN "raised" ELSE BlockOrder(active_sheet)[1]
    /\ UNCHANGED <<company, websites, active_sheet, reg_vars, tpl_vars, api_vars, ws_vars, fs_vars>>

StepBlock(sheet, label) ==
    /\ active_sheet = sheet
    /\ gpc = label
    /\ LET s == Block(sheet, label, schema, company, websites, FAKE_DIMENSIONS)
       IN  /\ schema' = s
           /\ gpc' = After(sheet, label, s)
    /\ UNCHANGED <<company, websites, active_sheet, reg_vars, tpl_vars, api_vars, ws_vars, fs_vars>>

ProductNoProductCodeStep == StepBlock(PRODUCT, "no_product_code")
ProductServiceSegmentStep == StepBlock(PRODUCT, "service_segment")
SaleOrderNoCatalogStep == StepBlock(SALE_ORDER, "no_catalog")
SaleOrderNoProductCodeStep == StepBlock(SALE_ORDER, "no_product_code")
SaleOrderNoOrderCodeStep == StepBlock(SALE_ORDER, "no_order_code")
SaleOrderWebsitesStep == StepBlock(SALE_ORDER, "websites")
SaleOrderServiceSegmentStep == StepBlock(SALE_ORDER, "service_segment")

\* the return statement
ReturnParams ==
    /\ gpc = "return"
    /\ gpc' = "returned"
    /\ UNCHANGED <<company, websites, active_sheet, schema, reg_vars, tpl_vars, api_vars, ws_vars, fs_vars>>

NextParams ==
    \/ GenerateXlsxParamsCall
    \/ ProductNoProductCodeStep
    \/ ProductServiceSegmentStep
    \/ SaleOrderNoCatalogStep
    \/ SaleOrderNoProductCodeStep
    \/ SaleOrderNoOrderCodeStep
    \/ SaleOrderWebsitesStep
    \/ SaleOrderServiceSegmentStep
    \/ ReturnParams

(***************************************************************************)
(* State machine of one SpreadsheetCoordinatesManager: any sequence of at  *)
(* most MaxCalls method calls on a manager built from any initial_data.    *)
(* call records the last call with its outcome.  hist is history kept for  *)
(* the properties: for each registered key the index it was registered     *)
(* with, the sum of the integer offsets given to update_column_offset      *)
(* since, and whether the stored index has ever been None.                 *)
(***************************************************************************)
Names == {"website", "sku"}

Indexes == {None} \cup {Some(i) : i \in (0 - 1)..MaxIndex}

Deltas == {None} \cup {Some(i) : i \in (0 - MaxDelta)..MaxDelta}

Rows == {HEADER_COLUMN_ROW, TABLE_START_ROW}

InitialData == UNION {[ks -> Indexes] : ks \in SUBSET Names}

Registered(d, key) == [first |-> d[key], sum |-> 0, was_none |-> IsNone(d[key])]

InitCoord ==
    /\ data \in InitialData
    /\ hist = [k \in DOMAIN data |-> Registered(data, k)]
    /\ call = NoCall
    /\ ncalls = 0
    /\ CompanyIdle
    /\ GenIdle
    /\ TplIdle
    /\ WsIdle
    /\ WalkIdle

Called(op, key, arg, out) ==
    /\ ncalls < MaxCalls
    /\ ncalls' = ncalls + 1
    /\ data' = out.data
    /\ call' = [op |-> op, key |-> key, arg |-> arg, ret |-> out.ret, exc |-> out.exc]
    /\ UNCHANGED <<company, websites, gen_vars, tpl_vars, api_vars, ws_vars, fs_vars>>

GetColumnIndex ==
    \E key \in Names :
        /\ Called("get_column_index", key, None, get_column_index(data, key))
        /\ UNCHANGED hist

AddColumnIndex ==
    \E key \in Names, initial_value \in Indexes :
        LET out == add_column_index(data, key, initial_value)
        IN  /\ Called("add_column_index", key, initial_value, out)
            /\ hist' = IF out.exc = NoExc
                       THEN DictSet(hist, key, Registered(out.data, key))
                       ELSE hist

UpdateColumnOffset ==
    \E key \in Names, value \in Deltas :
        LET out == update_column_offset(data, key, value)
        IN  /\ Called("update_column_offset", key, value, out)
            /\ hist' = IF out.exc = NoExc
                       THEN [hist EXCEPT
                               ![key].sum = IF IsNone(value) THEN @ ELSE @ + ValueOf(value),
                               ![key].was_none = @ \/ IsNone(value)]
                       ELSE hist

GetCoordinate ==
    \E key \in Names, row \in Rows :
        /\ Called("get_coordinate", key, Some(row), get_coordinate(data, key, row))
        /\ UNCHANGED hist

GetCoordinateRange ==
    \E key \in Names :
        /\ Called("get_coordinate_range", key, None, get_coordinate_range(data, key))
        /\ UNCHANGED hist

NextCoord ==
    \/ GetColumnIndex
    \/ AddColumnIndex
    \/ UpdateColumnOffset
    \/ GetCoordinate
    \/ GetCoordinateRange

SpecCoord == InitCoord /\ [][NextCoord]_vars

(***************************************************************************)
(* State machine of one get_template call.  tpc is "call" before the call, *)
(* then the step about to run, and finally "returned" or "raised".         *)
(***************************************************************************)
SkuSizeCounts ==
    (0..MaxSkuSizes) \cup ((EXCEL_MAX_ROWS - MaxSkuSizes)..(EXCEL_MAX_ROWS + 1))

InitTemplate ==
    /\ sku_sizes \in SkuSizeCounts
    /\ tpc = "call"
    /\ wb = <<>>
    /\ coord = <<>>
    /\ opt = <<>>
    /\ texc = NoExc

TemplateState == [wb |-> wb, coord |-> coord, exc |-> texc]

\* mutant: the step goes on to `next` whether or not ts carries an exception
TemplateStep_Swallow(ts, next) ==
    /\ wb' = ts.wb
    /\ coord' = ts.coord
    /\ texc' = ts.exc
    /\ tpc' = next
    /\ UNCHANGED <<company, websites, sku_sizes, gen_vars, reg_vars, api_vars, ws_vars, fs_vars>>

\* the move to the state ts, to `next` unless ts carries an exception
TemplateStep(ts, next) ==
    /\ wb' = ts.wb
    /\ coord' = ts.coord
    /\ texc' = ts.exc
    /\ tpc' = IF ts.exc # NoExc THEN "raised" ELSE next
    /\ UNCHANGED <<company, websites, sku_sizes, gen_vars, reg_vars, api_vars, ws_vars, fs_vars>>

\* wb = load_workbook(filepath)
LoadWorkbook ==
    /\ tpc = "call"
    /\ TemplateStep([wb |-> MasterWorkbook, coord |-> <<>>, exc |-> NoExc], "options")
    /\ UNCHANGED opt

UpdateOptionsTemplate ==
    /\ tpc = "options"
    /\ LET r == _update_options_template(TemplateState, company, websites, sku_sizes)
       IN  /\ TemplateStep(r.ts, "product")
           /\ opt' = r.locals

UpdateProductTemplate ==
    /\ tpc = "product"
    /\ TemplateStep(_update_product_template(TemplateState, company), "sale_order")
    /\ UNCHANGED opt

UpdateSaleOrderTemplate ==
    /\ tpc = "sale_order"
    /\ TemplateStep(_update_sale_order_template(TemplateState, company, websites),
                    "response")
    /\ UNCHANGED opt

\* return self._get_spreadsheet_response(wb, filename)
GetSpreadsheetResponse ==
    /\ tpc = "response"
    /\ tpc' = "returned"
    /\ UNCHANGED <<company, websites, sku_sizes, wb, coord, opt, texc, gen_vars, reg_vars,
                   api_vars, ws_vars, fs_vars>>

NextTemplate ==
    \/ LoadWorkbook
    \/ UpdateOptionsTemplate
    \/ UpdateProductTemplate
    \/ UpdateSaleOrderTemplate
    \/ GetSpreadsheetResponse

(***************************************************************************)
(* BatchWriteProductAndSaleOrder.post: the names of the sheets the upload  *)
(* is expected to hold, as passed to process_async.  sheet_names is <<>>   *)
(* until post has run.                                                     *)
(***************************************************************************)
\* mutant: both sheets are always expected
PostSheetNames_Both(c) == <<PRODUCT, SALE_ORDER>>

PostSheetNames(c) == IF c.has_catalog THEN <<PRODUCT, SALE_ORDER>> ELSE <<SALE_ORDER>>

Post ==
    /\ sheet_names = <<>>
    /\ sheet_names' = PostSheetNames(company)
    /\ UNCHANGED <<company, websites, gen_vars, reg_vars, tpl_vars, ws_vars, fs_vars>>

(***************************************************************************)
(* Spec: a company, and on it a generate_xlsx_params call, a get_template  *)
(* call and an upload, interleaved in any way.                             *)
(***************************************************************************)
Init ==
    /\ company \in Companies
    /\ websites \in 0..MaxWebsites
    /\ active_sheet \in SpreadsheetActiveSheet
    /\ gpc = "call"
    /\ schema = EmptySchema
    /\ InitTemplate
    /\ RegIdle
    /\ sheet_names = <<>>
    /\ WsIdle
    /\ WalkIdle

Next == NextParams \/ NextTemplate \/ Post

Spec == Init /\ [][Next]_vars

(***************************************************************************)
(* SpecMaster: one get_template call on a master workbook file that is the *)
(* repository's or lacks one column of the product or of the sale-order    *)
(* sheet, so that header lookups can fail.                                 *)
(***************************************************************************)
MasterWorkbooks ==
    {MasterWorkbook}
    \cup {[MasterWorkbook EXCEPT !.product = DeleteCols(@, i)] :
                i \in 1..Len(MasterProductHeaders)}
    \cup {[MasterWorkbook EXCEPT !.sale_order = DeleteCols(@, i)] :
                i \in 1..Len(MasterSaleOrderHeaders)}

\* wb = load_workbook(filepath), whatever the file holds
LoadAnyWorkbook ==
    /\ tpc = "call"
    /\ \E m \in MasterWorkbooks :
            TemplateStep([wb |-> m, coord |-> <<>>, exc |-> NoExc], "options")
    /\ UNCHANGED opt

InitMaster ==
    /\ company \in Companies
    /\ websites \in 0..MaxWebsites
    /\ GenIdle
    /\ RegIdle
    /\ InitTemplate
    /\ sheet_names = <<>>
    /\ WsIdle
    /\ WalkIdle

NextMaster ==
    \/ LoadAnyWorkbook
    \/ UpdateOptionsTemplate
    \/ UpdateProductTemplate
    \/ UpdateSaleOrderTemplate
    \/ GetSpreadsheetResponse

SpecMaster == InitMaster /\ [][NextMaster]_vars

(***************************************************************************)
(* Merge-aware column edits.  A worksheet is the cells of its first two    *)
(* rows and its merged ranges.  cells[row] is the part of ws._cells in     *)
(* that row, a function from the columns that hold a cell to the cell: a   *)
(* column without a cell is not in its domain, and ws.cell(row, column)    *)
(* creates the cell.  Row HEADER_GROUP_ROW is the group row, row           *)
(* HEADER_COLUMN_ROW the header row.  merged is ws.merged_cells.ranges     *)
(* for the ranges of the group row, each <<min_col, max_col>>; a range of  *)
(* one cell is a range like any other.  The iteration order of             *)
(* ws.merged_cells.ranges is not fixed by openpyxl, so each edit takes the *)
(* ranges as a sequence in the order of that iteration.  A cell is Cell or *)
(* MergedCell and carries what _get_cell_data reads of it: value,          *)
(* alignment, fill, border, font.  Of an alignment the model keeps the     *)
(* horizontal setting, of a border the style of each of its four sides, of *)
(* a font bold and color; None is openpyxl's default for each.             *)
(***************************************************************************)
MaxCols == 3

Font(bold, color) == [bold |-> bold, color |-> color]

Cell(value, alignment, fill, border, font) ==
    [type |-> "Cell", value |-> value, alignment |-> alignment, fill |-> fill,
     border |-> border, font |-> font]

Border(left, right, top, bottom) ==
    [left |-> left, right |-> right, top |-> top, bottom |-> bottom]

\* a cell that was never written, as ws.cell() creates it
DefaultCell ==
    Cell(None, None, None, Border(None, None, None, None), Font(FALSE, None))

\* the cells of a merged range other than its top-left cell: they hold no
\* value, and a write to their value raises AttributeError
MergedCell == [DefaultCell EXCEPT !.type = "MergedCell"]

\* tall holds the merged ranges of more than one row, each as
\* range_boundaries gives it: <<min_col, min_row, max_col, max_row>>
Worksheet(group, header, merged) ==
    [cells |-> <<group, header>>, merged |-> merged, tall |-> {}]

group(sheet) == sheet.cells[HEADER_GROUP_ROW]

header(sheet) == sheet.cells[HEADER_COLUMN_ROW]

\* a worksheet after a statement, and the exception the statement raised
Res(sheet, exc) == [ws |-> sheet, exc |-> exc]

Largest(S) == CHOOSE x \in S : \A y \in S : y <= x

\* ws.max_column, ws.max_row: 1 on a sheet without cells
max_column(sheet) ==
    LET cols == UNION {DOMAIN sheet.cells[row] : row \in DOMAIN sheet.cells}
    IN  IF cols = {} THEN 1 ELSE Largest(cols)

max_row(sheet) ==
    LET rows == {row \in DOMAIN sheet.cells : DOMAIN sheet.cells[row] # {}}
    IN  IF rows = {} THEN 1 ELSE Largest(rows)

\* self._cells[(row, column)] = c
PutCell(sheet, row, column, c) ==
    [sheet EXCEPT !.cells[row] =
        [p \in DOMAIN @ \cup {column} |-> IF p = column THEN c ELSE @[p]]]

\* del self._cells[(row, column)] for the columns given
DelCells(sheet, row, columns) ==
    [sheet EXCEPT !.cells[row] = [p \in DOMAIN @ \ columns |-> @[p]]]

\* ws.cell(row, column), ws[coordinate]: the cell is created if the sheet
\* does not hold it
ws_cell(sheet, row, column) ==
    IF column \in DOMAIN sheet.cells[row] THEN sheet
    ELSE PutCell(sheet, row, column, DefaultCell)

\* value.endswith('*')
EndsWithAsterisk(value) ==
    Len(value) > 0 /\ SubSeq(value, Len(value), Len(value)) = "*"

\* mutant: the new header cell gets its value and keeps the default style
NewHeaderCell_ValueOnly(value) == [DefaultCell EXCEPT !.value = Some(value)]

\* 5. Set the header for the new column: the cell is always created here,
\* ws.insert_cols leaves column index without cells
NewHeaderCell(value) ==
    [DefaultCell EXCEPT
        !.value = Some(value),
        !.alignment = Some("center"),
        !.border = Border(Some("thin"), Some("thin"), Some("thin"), Some("thin")),
        !.font = Font(TRUE, IF EndsWithAsterisk(value) THEN Some("E97132") ELSE None)]

\* the dictionary of _get_cell_data for a cell
CellData(c) ==
    [value |-> c.value, alignment |-> c.alignment, fill |-> c.fill,
     border |-> c.border, font |-> c.font]

\* _get_cell_data reads the cell through ws.cell, which creates it
_get_cell_data(sheet, row, column) == CellData(ws_cell(sheet, row, column).cells[row][column])

\* _copy_cell writes the value first: on a MergedCell that raises
\* AttributeError and nothing is written
_copy_cell(sheet, row, column, source_cell_data) ==
    LET target_cell == sheet.cells[row][column]
    IN  IF target_cell.type = "MergedCell" THEN Res(sheet, "AttributeError")
        ELSE Res(PutCell(sheet, row, column,
                         [type |-> target_cell.type,
                          value |-> source_cell_data.value,
                          alignment |-> source_cell_data.alignment,
                          fill |-> source_cell_data.fill,
                          border |-> source_cell_data.border,
                          font |-> source_cell_data.font]),
                 NoExc)

\* ws[coordinate2].value = ws[coordinate1].value; ws[coordinate1].value = None
_move_cell_right(sheet, col, row) ==
    LET read == ws_cell(sheet, row, col)
        value == read.cells[row][col].value
        target == ws_cell(read, row, col + 1)
        written == [target EXCEPT !.cells[row][col + 1].value = value]
    IN  IF target.cells[row][col + 1].type = "MergedCell" THEN Res(target, "AttributeError")
        ELSE IF written.cells[row][col].type = "MergedCell"
        THEN Res(written, "AttributeError")
        ELSE Res([written EXCEPT !.cells[row][col].value = None], NoExc)

\* cr <= r for two ranges of one row
Within(cr, r) == r[1] <= cr[1] /\ cr[2] <= r[2]

\* the cells of a range other than its first, that are deleted one after the
\* other until one is missing
RECURSIVE DeleteRangeCells(_, _, _)
DeleteRangeCells(sheet, column, max_col) ==
    IF column > max_col THEN Res(sheet, NoExc)
    ELSE IF column \notin DOMAIN sheet.cells[HEADER_GROUP_ROW] THEN Res(sheet, "KeyError")
    ELSE DeleteRangeCells(DelCells(sheet, HEADER_GROUP_ROW, {column}), column + 1, max_col)

\* ws.unmerge_cells: ValueError if the range is inside no merged range;
\* the range is removed from the set (KeyError if it is not a member), and
\* its cells other than the first are deleted from the sheet
unmerge_cells(sheet, r) ==
    IF ~\E q \in sheet.merged : Within(r, q) THEN Res(sheet, "ValueError")
    ELSE IF r \notin sheet.merged THEN Res(sheet, "KeyError")
    ELSE DeleteRangeCells([sheet EXCEPT !.merged = @ \ {r}], r[1] + 1, r[2])

\* one side of the sum of two borders: the side of the first border if it
\* has a style, else that of the second
SideOr(a, b) == IF a # None THEN a ELSE b

\* ws.merge_cells: the first cell of the range is created if missing and
\* takes the right and bottom sides of the last cell of the range where it
\* has none; the range is added unless a merged range holds it already;
\* the cells after the first are replaced by MergedCells, which get the top
\* and bottom sides of the first cell, and the last of them its right side
merge_cells(sheet, r) ==
    LET started == ws_cell(sheet, HEADER_GROUP_ROW, r[1])
        row == started.cells[HEADER_GROUP_ROW]
        start_cell == row[r[1]]
        border == IF r[2] \in DOMAIN row
                  THEN [start_cell.border EXCEPT
                            !.right = SideOr(@, row[r[2]].border.right),
                            !.bottom = SideOr(@, row[r[2]].border.bottom)]
                  ELSE start_cell.border
        added == IF \E q \in started.merged : Within(r, q) THEN started
                 ELSE [started EXCEPT !.merged = @ \cup {r}]
    IN  [added EXCEPT !.cells[HEADER_GROUP_ROW] =
            [p \in DOMAIN row \cup (r[1] + 1)..r[2] |->
                IF p = r[1] THEN [start_cell EXCEPT !.border = border]
                ELSE IF p > r[1] /\ p <= r[2]
                THEN [MergedCell EXCEPT
                        !.border = Border(None, IF p = r[2] THEN border.right ELSE None,
                                          border.top, border.bottom)]
                ELSE row[p]]]

\* list(self.iter_cols(min_col=min_col)) in _move_cells: the cells of the
\* rows 1..max_row in the columns min_col..max_column are created
IterCols(sheet, min_col) ==
    LET last_row == max_row(sheet)
        last_col == max_column(sheet)
    IN  [sheet EXCEPT !.cells =
            [row \in DOMAIN @ |->
                IF row > last_row THEN @[row]
                ELSE [p \in DOMAIN @[row] \cup min_col..last_col |->
                        IF p \in DOMAIN @[row] THEN @[row][p] ELSE DefaultCell]]]

\* ws._move_cells(min_col=min_col, offset=offset, row_or_col="column") for
\* an offset of 1 or -1: every cell from min_col on moves by offset, a cell
\* it lands on is replaced
_move_cells(sheet, min_col, offset) ==
    LET all == IterCols(sheet, min_col)
    IN  [all EXCEPT !.cells =
            [row \in DOMAIN @ |->
                LET old == @[row]
                    kept == {p \in DOMAIN old : p < min_col}
                    moved == {p + offset : p \in {q \in DOMAIN old : q >= min_col}}
                IN  [p \in kept \cup moved |->
                        IF p \in moved THEN old[p - offset] ELSE old[p]]]]

\* _gutter(idx, offset, max_val) of openpyxl
_gutter(idx, offset, max_val) ==
    (IF max_val + 1 - offset > idx THEN max_val + 1 - offset ELSE idx) ..
    (IF idx + offset < max_val THEN idx + offset ELSE max_val)

\* ws.insert_cols(idx)
insert_cols(sheet, idx) == _move_cells(sheet, idx, 1)

\* ws.delete_cols(idx): the columns after idx move left over it, then the
\* cells of the remainder are deleted in the rows min_row..max_row, which
\* are all the rows that hold cells
delete_cols(sheet, idx) ==
    LET remainder == _gutter(idx, 1, max_column(sheet))
        moved == _move_cells(sheet, idx + 1, -1)
    IN  [moved EXCEPT !.cells = [row \in DOMAIN @ |->
                                    [p \in DOMAIN @[row] \ remainder |-> @[row][p]]]]

\* mutant: the rows of the merged ranges are not compared
CollectRanges_AnyRows(sheet) == NoExc

\* 1. Collect existing single-row merged cells: a range with
\* min_row != max_row raises ValueError, before anything is changed
CollectRanges(sheet) ==
    IF \E r \in sheet.tall : r[2] # r[4] THEN "ValueError" ELSE NoExc

NewRange(top_left_cell_data, min_col, max_col) ==
    [top_left_cell_data |-> top_left_cell_data, min_col |-> min_col, max_col |-> max_col]

\* the loop that re-applies the merges, over the list new_ranges in its
\* order: the top-left cell is created if missing and written from its
\* snapshot, and the range is merged if it spans more than one column
RECURSIVE ReapplyRanges(_, _)
ReapplyRanges(sheet, new_ranges) ==
    IF new_ranges = <<>> THEN Res(sheet, NoExc)
    ELSE LET range_data == Head(new_ranges)
             cell == ws_cell(sheet, HEADER_GROUP_ROW, range_data.min_col)
             copied == _copy_cell(cell, HEADER_GROUP_ROW, range_data.min_col,
                                  range_data.top_left_cell_data)
         IN  IF copied.exc # NoExc THEN copied
             ELSE ReapplyRanges(
                    IF range_data.min_col # range_data.max_col
                    THEN merge_cells(copied.ws, <<range_data.min_col, range_data.max_col>>)
                    ELSE copied.ws,
                    Tail(new_ranges))

\* _delete_column_with_merged_ranges, per old range with max_col >= index:
\* the bounds of the range after the deletion, with the snapshot of its
\* top-left cell
DeleteNewRange(sheet, r, index) ==
    LET top_left == _get_cell_data(sheet, HEADER_GROUP_ROW, r[1])
    IN  IF r[1] = r[2]
        THEN IF r[1] # index THEN NewRange(top_left, r[1] - 1, r[2] - 1)
             ELSE NewRange(top_left, r[1], r[2])
        ELSE NewRange(top_left, IF r[1] > index THEN r[1] - 1 ELSE r[1], r[2] - 1)

\* ... and what is done to the sheet: the top-left cell is read, the range
\* is unmerged, and the top-left value moved when a range of more than one
\* column starts at index
DeleteUnmerge(sheet, r, index) ==
    LET read == ws_cell(sheet, HEADER_GROUP_ROW, r[1])
        unmerged == unmerge_cells(read, r)
    IN  IF unmerged.exc = NoExc /\ r[1] # r[2] /\ r[1] = index
        THEN _move_cell_right(unmerged.ws, r[1], HEADER_GROUP_ROW)
        ELSE unmerged

\* the loop over old_ranges of _delete_column_with_merged_ranges: the sheet
\* after it, the exception that ended it, and the list new_ranges
RECURSIVE DeleteUnmergeAll(_, _, _)
DeleteUnmergeAll(sheet, old_ranges, index) ==
    IF old_ranges = <<>> THEN [ws |-> sheet, exc |-> NoExc, new_ranges |-> <<>>]
    ELSE LET r == Head(old_ranges)
         IN  IF r[2] < index THEN DeleteUnmergeAll(sheet, Tail(old_ranges), index)
             ELSE LET done == DeleteUnmerge(sheet, r, index)
                      rest == DeleteUnmergeAll(done.ws, Tail(old_ranges), index)
                  IN  IF done.exc # NoExc
                      THEN [ws |-> done.ws, exc |-> done.exc, new_ranges |-> <<>>]
                      ELSE [rest EXCEPT !.new_ranges = <<DeleteNewRange(sheet, r, index)>> \o @]

\* ranges is ws.merged_cells.ranges in the order of its iteration
_delete_column_with_merged_ranges(sheet, ranges, index) ==
    LET unmerged == DeleteUnmergeAll(sheet, ranges, index)
    IN  IF CollectRanges(sheet) # NoExc THEN Res(sheet, CollectRanges(sheet))
        ELSE IF unmerged.exc # NoExc THEN Res(unmerged.ws, unmerged.exc)
        ELSE ReapplyRanges(delete_cols(unmerged.ws, index), unmerged.new_ranges)

\* 2. Include every non-merged cell in the first row as a "merged range":
\* the columns 1..ws.max_column that no merged range holds, in ascending
\* order
ImplicitRanges(sheet) ==
    LET Implicit(r) == \A q \in sheet.merged : r[1] < q[1] \/ r[1] > q[2]
    IN  SelectSeq([c \in 1..max_column(sheet) |-> <<c, c>>], Implicit)

\* 3. Handle merged ranges, per old range with max_col >= index: the bounds
\* of the range after the insertion, with the snapshot of its top-left cell
AddNewRange(sheet, r, index) ==
    LET top_left == _get_cell_data(sheet, HEADER_GROUP_ROW, r[1])
    IN  IF r[1] = r[2]
        THEN IF r[1] = index THEN NewRange(top_left, r[1], r[2] + 1)
             ELSE NewRange(top_left, r[1] + 1, r[2] + 1)
        ELSE NewRange(top_left, IF r[1] > index THEN r[1] + 1 ELSE r[1], r[2] + 1)

\* ... and what is done to the sheet: the top-left cell is read; a range of
\* more than one column is unmerged, and its top-left value moved when the
\* range starts at index; a range of one column is not unmerged
AddUnmerge(sheet, r, index) ==
    LET read == ws_cell(sheet, HEADER_GROUP_ROW, r[1])
        unmerged == IF r[1] = r[2] THEN Res(read, NoExc) ELSE unmerge_cells(read, r)
    IN  IF unmerged.exc = NoExc /\ r[1] # r[2] /\ r[1] = index
        THEN _move_cell_right(unmerged.ws, r[1], HEADER_GROUP_ROW)
        ELSE unmerged

RECURSIVE AddUnmergeAll(_, _, _)
AddUnmergeAll(sheet, old_ranges, index) ==
    IF old_ranges = <<>> THEN [ws |-> sheet, exc |-> NoExc, new_ranges |-> <<>>]
    ELSE LET r == Head(old_ranges)
         IN  IF r[2] < index THEN AddUnmergeAll(sheet, Tail(old_ranges), index)
             ELSE LET done == AddUnmerge(sheet, r, index)
                      rest == AddUnmergeAll(done.ws, Tail(old_ranges), index)
                  IN  IF done.exc # NoExc
                      THEN [ws |-> done.ws, exc |-> done.exc, new_ranges |-> <<>>]
                      ELSE [rest EXCEPT !.new_ranges = <<AddNewRange(sheet, r, index)>> \o @]

\* ranges is ws.merged_cells.ranges in the order of its iteration
_add_column_with_merged_ranges(sheet, ranges, index, value) ==
    LET old_ranges == ranges \o ImplicitRanges(sheet)
        unmerged == AddUnmergeAll(sheet, old_ranges, index)
        shifted == insert_cols(unmerged.ws, index)
        headed == PutCell(shifted, HEADER_COLUMN_ROW, index, NewHeaderCell(value))
    IN  IF CollectRanges(sheet) # NoExc THEN Res(sheet, CollectRanges(sheet))
        ELSE IF unmerged.exc # NoExc THEN Res(unmerged.ws, unmerged.exc)
        ELSE ReapplyRanges(headed, unmerged.new_ranges)

(***************************************************************************)
(* SpecSheet: a small worksheet, and either a column added to it, or a     *)
(* column deleted from it and a column added to the result.  The worksheet *)
(* has up to MaxCols columns, with a cell in both rows of each; its group  *)
(* row is cut into segments in every way: a segment of more than one       *)
(* column is a merged range, a segment of one column is an unmerged cell   *)
(* or a merged range of one cell, and the ranges are merged with           *)
(* ws.merge_cells.  The header cells have the style of step 5, but for at  *)
(* most one of them.                                                       *)
(***************************************************************************)
SheetHeaders == <<"SKU *", "Preço POR", "Nome *", "Cor", "Idade">>

GroupCell(c) ==
    Cell(Some("Grupo " \o ToString(c)), Some("center"), Some("solid"),
         Border(Some("thin"), Some("thin"), Some("thin"), Some("thin")), Font(TRUE, None))

HeaderCells(value) ==
    { NewHeaderCell(value),
      [NewHeaderCell(value) EXCEPT !.fill = Some("solid")],
      [DefaultCell EXCEPT !.value = Some(value)] }

\* the header rows of n columns
HeaderRows(n) ==
    {h \in [1..n -> UNION {HeaderCells(SheetHeaders[c]) : c \in 1..n}] :
        /\ \A c \in 1..n : h[c] \in HeaderCells(SheetHeaders[c])
        /\ \A c, d \in 1..n : c # d =>
                \/ h[c] = NewHeaderCell(SheetHeaders[c])
                \/ h[d] = NewHeaderCell(SheetHeaders[d])}

\* the segments of a group row of n columns cut after the columns in cuts
Segments(n, cuts) ==
    {r \in (1..n) \X (1..n) :
        /\ r[1] <= r[2]
        /\ r[1] = 1 \/ (r[1] - 1) \in cuts
        /\ r[2] = n \/ r[2] \in cuts
        /\ \A k \in r[1]..(r[2] - 1) : k \notin cuts}

\* the sets of merged ranges of a group row of n columns
RangeSets(n) ==
    UNION {
        {{r \in Segments(n, cuts) : r[1] < r[2]} \cup ones :
            ones \in SUBSET {r \in Segments(n, cuts) : r[1] = r[2]}} :
        cuts \in SUBSET (1..(n - 1))}

\* the sheet after ws.merge_cells of each of the ranges, from left to right
RECURSIVE MergeAll(_, _)
MergeAll(sheet, ranges) ==
    IF ranges = {} THEN sheet
    ELSE LET r == CHOOSE x \in ranges : \A y \in ranges : x[1] <= y[1]
         IN  MergeAll(merge_cells(sheet, r), ranges \ {r})

Worksheets ==
    UNION {
        {MergeAll(Worksheet([c \in 1..n |-> GroupCell(c)], h, {}), merged) :
            merged \in RangeSets(n), h \in HeaderRows(n)} :
        n \in 1..MaxCols}

\* the orders in which the ranges of ws.merged_cells.ranges can be iterated
Orders(ranges) ==
    {o \in [1..Cardinality(ranges) -> ranges] :
        \A r \in ranges : \E k \in DOMAIN o : o[k] = r}

WsOp(op, index, value) == [op |-> op, index |-> index, value |-> value]

InitSheet ==
    /\ ws0 \in Worksheets
    /\ ws = ws0
    /\ wops = <<>>
    /\ wpc = "loaded"
    /\ wexc = NoExc
    /\ CompanyIdle
    /\ GenIdle
    /\ RegIdle
    /\ TplIdle
    /\ WalkIdle

\* the end of a call: the worksheet it leaves and the exception it raised
WsDone(op, index, value, result, done) ==
    /\ ws' = result.ws
    /\ wexc' = result.exc
    /\ wpc' = IF result.exc # NoExc THEN "raised" ELSE done
    /\ wops' = Append(wops, WsOp(op, index, value))
    /\ UNCHANGED <<ws0, company, websites, gen_vars, reg_vars, tpl_vars, api_vars, fs_vars>>

DeleteColumnWithMergedRanges ==
    /\ wpc = "loaded"
    /\ \E index \in 1..max_column(ws), ranges \in Orders(ws.merged) :
        WsDone("delete", index, None,
               _delete_column_with_merged_ranges(ws, ranges, index), "deleted")

AddColumnWithMergedRanges ==
    /\ wpc \in {"loaded", "deleted"}
    /\ \E index \in 1..(max_column(ws) + 1), c \in DOMAIN header(ws0),
          ranges \in Orders(ws.merged) :
        WsDone("add", index, Some(SheetHeaders[c]),
               _add_column_with_merged_ranges(ws, ranges, index, SheetHeaders[c]),
               IF wpc = "loaded" THEN "added" ELSE "readded")

NextSheet == DeleteColumnWithMergedRanges \/ AddColumnWithMergedRanges

SpecSheet == InitSheet /\ [][NextSheet]_vars

(***************************************************************************)
(* SpecEdits: up to MaxEdits calls of the two column edits, in any order,  *)
(* on a small worksheet that may hold a merged range of two rows below the *)
(* header.  A call that raises ends the run, and no column is added to a   *)
(* worksheet of more than MaxCols + 1 columns.                             *)
(***************************************************************************)
MaxEdits == 2

EditSheets ==
    {[s EXCEPT !.tall = tall] :
        s \in {x \in Worksheets :
                    \A c \in DOMAIN header(x) : header(x)[c] = NewHeaderCell(SheetHeaders[c])},
        tall \in {{}, {<<1, TABLE_START_ROW, 1, TABLE_START_ROW + 1>>}}}

InitEdits ==
    /\ ws0 \in EditSheets
    /\ ws = ws0
    /\ wops = <<>>
    /\ wpc = "loaded"
    /\ wexc = NoExc
    /\ CompanyIdle
    /\ GenIdle
    /\ RegIdle
    /\ TplIdle
    /\ WalkIdle

EditDeleteColumn ==
    /\ wpc \in {"loaded", "edited"}
    /\ Len(wops) < MaxEdits
    /\ \E index \in 1..max_column(ws), ranges \in Orders(ws.merged) :
        WsDone("delete", index, None,
               _delete_column_with_merged_ranges(ws, ranges, index), "edited")

EditAddColumn ==
    /\ wpc \in {"loaded", "edited"}
    /\ Len(wops) < MaxEdits
    /\ max_column(ws) <= MaxCols + 1
    /\ \E index \in 1..(max_column(ws) + 1), ranges \in Orders(ws.merged) :
        WsDone("add", index, Some(SheetHeaders[1]),
               _add_column_with_merged_ranges(ws, ranges, index, SheetHeaders[1]), "edited")

NextEdits == EditDeleteColumn \/ EditAddColumn

SpecEdits == InitEdits /\ [][NextEdits]_vars

(***************************************************************************)
(* limpar.py: fast_walk and fast_walk_concurrent on a small directory tree *)
(***************************************************************************)
MaxNodes == 4      \* entries of the tree, the root directory included

\* a tree is grown one entry at a time: entry 1 is root_dir, every other
\* entry is put in a directory created before it and is a directory, a
\* file, a symbolic link to a directory, or a file named like a copy
\* ("name (1).ext").  The name of an entry is its number; orig[n] is, for a
\* copy, the entry of the same directory that bears its name without the
\* number (a directory, a file, a link or another copy), 0 if there is none.
\* `denied` are the directories whose os.scandir raises PermissionError,
\* `readonly` the directories that can be listed and not written: os.remove
\* of one of their entries raises PermissionError.  The mode of root_dir
\* beyond denied plays no role: nothing is removed from root_dir itself.
\* A file that was removed keeps its number and has the kind "removed".
Tree(parent, kind, orig, denied, readonly) ==
    [parent |-> parent, kind |-> kind, orig |-> orig, denied |-> denied,
     readonly |-> readonly]

DirsOf(t) == {n \in 1..Len(t.parent) : t.kind[n] = "dir"}

\* the tree with one more entry
Grown(t, p, k, o) ==
    [t EXCEPT !.parent = Append(@, p), !.kind = Append(@, k), !.orig = Append(@, o)]

\* root_dir alone, readable or not
Roots == {Tree(<<0>>, <<"dir">>, <<0>>, denied, {}) : denied \in {{}, {1}}}

\* the trees with one more entry than t.  Only limpar removes files: for the
\* other consumer a copy is a file and a directory that cannot be written
\* is a directory, and the trees have neither.
OneMore(t, c) ==
    LET n == Len(t.parent) + 1
    IN  UNION {
            {Grown(t, p, k, 0) : k \in {"dir", "file", "link"}}
            \cup {[Grown(t, p, "dir", 0) EXCEPT !.denied = @ \cup {n}]}
            \cup (IF c # "limpar" THEN {}
                  ELSE {[Grown(t, p, "dir", 0) EXCEPT !.readonly = @ \cup {n}]}
                       \cup {Grown(t, p, "copy", o) :
                                o \in {0} \cup {m \in 1..(n - 1) : t.parent[m] = p}})
            : p \in DirsOf(t)}

\* the tree of the walk is t or a tree grown from t, of MaxNodes entries
\* at most
RECURSIVE TreeFrom(_, _)
TreeFrom(t, c) ==
    \/ tree = t
    \/ /\ Len(t.parent) < MaxNodes
       /\ \E u \in OneMore(t, c) : TreeFrom(u, c)

\* a path is the sequence of the names from root_dir down
root_dir == <<1>>
\* os.path.basename
basename(path) == path[Len(path)]
\* the entry that a path names
NodeAt(path) == path[Len(path)]

\* os.scandir(path): the entries of the directory, in directory order
scandir(t, path) ==
    SelectSeq([i \in 1..Len(t.parent) |-> i],
              LAMBDA n : t.parent[n] = NodeAt(path) /\ t.kind[n] # "removed")

\* entry.is_dir(follow_symlinks=False)
is_dir(t, n) == t.kind[n] = "dir"

\* mutant: entry.is_dir() with the default follow_symlinks=True
fast_walk_FollowSymlinks(t, path) ==
    IF NodeAt(path) \in t.denied
    THEN [path |-> path, dirs |-> <<>>, files |-> <<>>]
    ELSE LET it == scandir(t, path)
             dirs == SelectSeq(it, LAMBDA n : t.kind[n] \in {"dir", "link"})
             files == SelectSeq(it, LAMBDA n : t.kind[n] \in {"file", "copy"})
         IN  [path |-> path,
              dirs |-> [i \in 1..Len(dirs) |-> Append(path, dirs[i])],
              files |-> files]

\* fast_walk: full paths of the subdirectories, names of the other entries;
\* (path, [], []) when os.scandir raises PermissionError
fast_walk(t, path) ==
    IF NodeAt(path) \in t.denied
    THEN [path |-> path, dirs |-> <<>>, files |-> <<>>]
    ELSE LET it == scandir(t, path)
             dirs == SelectSeq(it, LAMBDA n : is_dir(t, n))
             files == SelectSeq(it, LAMBDA n : ~is_dir(t, n))
         IN  [path |-> path,
              dirs |-> [i \in 1..Len(dirs) |-> Append(path, dirs[i])],
              files |-> files]

\* executor.submit(fast_walk, d): a job that has not run yet
Submitted(d) == [path |-> d, done |-> FALSE, result |-> <<>>]

\* mutant: the subdirectories replace the stack
ExtendStack_Replace(st, dirs) == dirs

\* stack.extend(dirs)
ExtendStack(st, dirs) == st \o dirs

\* the tuple yielded for a result
Yielded(result) ==
    [path |-> result.path,
     dirs |-> [i \in 1..Len(result.dirs) |-> basename(result.dirs[i])],
     files |-> result.files]

\* os.walk(top): the directories it visits, top first, then the real
\* subdirectories of each from the first to the last (a symbolic link is
\* listed and not followed); a directory that cannot be listed is skipped
RECURSIVE os_walk(_, _), os_walk_each(_, _)
os_walk(t, top) ==
    IF top \in t.denied THEN <<>>
    ELSE <<top>> \o os_walk_each(t, SelectSeq([i \in 1..Len(t.parent) |-> i],
                        LAMBDA n : t.parent[n] = top /\ t.kind[n] = "dir"))

os_walk_each(t, ds) ==
    IF ds = <<>> THEN <<>> ELSE os_walk(t, Head(ds)) \o os_walk_each(t, Tail(ds))

\* os.path.exists of the name that a copy has without its number
exists(t, o) == o # 0 /\ t.kind[o] # "removed"

\* files_to_remove after the loop over os.walk(directory): in the order of
\* the walk, the files (entries that are no directory and no link to one)
\* whose name matches "filename (number).extension" and for which
\* os.path.exists(original_filepath)
RECURSIVE files_to_remove_in(_, _)
files_to_remove_in(t, walked) ==
    IF walked = <<>> THEN <<>>
    ELSE SelectSeq([i \in 1..Len(t.parent) |-> i],
                   LAMBDA n : /\ t.parent[n] = Head(walked)
                              /\ t.kind[n] = "copy"
                              /\ exists(t, t.orig[n]))
         \o files_to_remove_in(t, Tail(walked))

files_to_remove(t, directory) == files_to_remove_in(t, os_walk(t, directory))

\* find_and_remove_duplicates(directory): os.remove of the files found, one
\* after the other; the first one in a directory that cannot be written
\* raises PermissionError and the files after it stay
find_and_remove_duplicates(t, directory) ==
    LET found == files_to_remove(t, directory)
        failing == {i \in 1..Len(found) : t.parent[found[i]] \in t.readonly}
        stop == IF failing = {} THEN Len(found) + 1
                ELSE CHOOSE i \in failing : \A j \in failing : i <= j
        removed == {found[i] : i \in 1..(stop - 1)}
    IN  [tree |-> [t EXCEPT !.kind = [n \in DOMAIN t.kind |->
                        IF n \in removed THEN "removed" ELSE t.kind[n]]],
         exc |-> IF failing = {} THEN NoExc ELSE "PermissionError"]

InitWalk ==
    /\ consumer \in {"next", "limpar"}
    /\ \E r \in Roots : TreeFrom(r, consumer)
    /\ fexc = NoExc
    /\ stack = <<root_dir>>
    /\ futures = <<>>
    /\ yielded = <<>>
    /\ fpc = "loop"
    /\ CompanyIdle
    /\ GenIdle
    /\ RegIdle
    /\ TplIdle
    /\ WsIdle

WalkUnchanged ==
    UNCHANGED <<consumer, company, websites, gen_vars, reg_vars, tpl_vars, api_vars,
                ws_vars>>

\* while stack: futures = [executor.submit(fast_walk, d) for d in stack]; stack = []
SubmitLevel ==
    /\ fpc = "loop"
    /\ stack # <<>>
    /\ futures' = [i \in 1..Len(stack) |-> Submitted(stack[i])]
    /\ stack' = <<>>
    /\ fpc' = "collect"
    /\ UNCHANGED <<tree, yielded, fexc>>
    /\ WalkUnchanged

\* a thread of the pool runs one of the submitted jobs
RunJob ==
    /\ \E i \in 1..Len(futures) :
        /\ ~futures[i].done
        /\ futures' = [futures EXCEPT ![i] = [path |-> @.path, done |-> TRUE,
                                              result |-> fast_walk(tree, @.path)]]
    /\ UNCHANGED <<tree, stack, yielded, fpc, fexc>>
    /\ WalkUnchanged

\* for future in futures: future.result(); yield ...: the generator is
\* suspended at the yield and its consumer runs
CollectResult ==
    /\ fpc = "collect"
    /\ futures # <<>>
    /\ Head(futures).done
    /\ yielded' = Append(yielded, Yielded(Head(futures).result))
    /\ fpc' = "yielded"
    /\ UNCHANGED <<tree, stack, futures, fexc>>
    /\ WalkUnchanged

\* the consumer asks for the next tuple: the generator goes on after the
\* yield with stack.extend(dirs) and the next future.  limpar does so when
\* the tuple has no subdirectories, its loop over dirs having no body to run.
ResumeGenerator ==
    /\ fpc = "yielded"
    /\ consumer = "next" \/ Head(futures).result.dirs = <<>>
    /\ stack' = ExtendStack(stack, Head(futures).result.dirs)
    /\ futures' = Tail(futures)
    /\ fpc' = "collect"
    /\ UNCHANGED <<tree, yielded, fexc>>
    /\ WalkUnchanged

\* limpar, for dirname in dirs: find_and_remove_duplicates(dirpath) runs on
\* the first subdirectory and may raise PermissionError; if it does not,
\* remove_files_by_pattern raises NameError (glob is not imported).  Either
\* way the generator is never resumed.
LimparBody ==
    /\ fpc = "yielded"
    /\ consumer = "limpar"
    /\ Head(futures).result.dirs # <<>>
    /\ LET r == find_and_remove_duplicates(tree, NodeAt(Head(futures).result.dirs[1]))
       IN  /\ tree' = r.tree
           /\ fexc' = IF r.exc # NoExc THEN r.exc ELSE "NameError"
    /\ fpc' = "raised"
    /\ UNCHANGED <<stack, futures, yielded>>
    /\ WalkUnchanged

\* the end of the for loop: back to the test of the while loop
EndLevel ==
    /\ fpc = "collect"
    /\ futures = <<>>
    /\ fpc' = "loop"
    /\ UNCHANGED <<tree, stack, futures, yielded, fexc>>
    /\ WalkUnchanged

\* the stack is empty: the executor is shut down and the generator ends
EndWalk ==
    /\ fpc = "loop"
    /\ stack = <<>>
    /\ fpc' = "done"
    /\ UNCHANGED <<tree, stack, futures, yielded, fexc>>
    /\ WalkUnchanged

NextWalk ==
    \/ SubmitLevel
    \/ RunJob
    \/ CollectResult
    \/ ResumeGenerator
    \/ LimparBody
    \/ EndLevel
    \/ EndWalk

SpecWalk == InitWalk /\ [][NextWalk]_vars

\* the threads of the pool run the jobs they were given, the generator runs
\* when it is resumed, and each consumer takes its step: the loop to the end
\* asks for the next tuple, the body of the loop of limpar ends (by raising)
FairWalk == SpecWalk /\ WF_vars(NextWalk)

(***************************************************************************)
(* Properties                                                              *)
(***************************************************************************)
\* the two flag combinations the generator and the mutator reject
Rejected(c) == ~c.has_catalog /\ (c.has_product_code \/ ~c.is_service_segment)

ValidFlags(c) == ~Rejected(c)

Returned == gpc = "returned"

HasLocals == DOMAIN opt # {}

\* C1: for every flag combination with has_catalog=false and
\* (has_product_code=true or is_service_segment=false), whatever has_order_code
\* and the number of active websites, the sale-order schema generation ends
\* by raising ValueError and get_template ends by raising an error, never by
\* returning a response.
C1_RejectedCombinationsFail ==
    Rejected(company) =>
        /\ (active_sheet = SALE_ORDER /\ gpc \notin {"call", "no_catalog"}
                => gpc = "raised" /\ schema.exc = "ValueError")
        /\ (tpc \notin {"call", "options", "product", "sale_order"}
                => tpc = "raised" /\ texc = "ValueError")

C1_Witness ==
    /\ Rejected(company)
    /\ company.is_service_segment
    /\ ~company.has_order_code
    /\ websites = 0
    /\ active_sheet = SALE_ORDER
    /\ gpc = "raised"
    /\ tpc = "raised"
    /\ texc = "ValueError"

\* C2 as claimed: for every flag combination that is not rejected,
\* generate_xlsx_params returns a schema without raising, for the product
\* sheet as well as for the sale-order sheet.
C2_Claimed == ValidFlags(company) => gpc # "raised"

\* C2 amended: generate_xlsx_params raises nothing but ValueError, and it
\* returns a schema exactly when, for the sale-order sheet, the flags are not
\* rejected and there is at least one active website, and for the product
\* sheet, has_catalog=true.
C2_TotalWhereAccepted ==
    LET accepted == IF active_sheet = PRODUCT
                    THEN company.has_catalog
                    ELSE ValidFlags(company) /\ websites >= 1
    IN  /\ gpc = "raised" => schema.exc = "ValueError" /\ ~accepted
        /\ gpc \in {"return", "returned"} => schema.exc = NoExc /\ accepted

C2_Witness ==
    /\ Returned
    /\ active_sheet = SALE_ORDER
    /\ company.is_service_segment
    /\ company.has_catalog
    /\ ~company.has_product_code
    /\ ~company.has_order_code
    /\ websites = 1

\* the values of column_keys that are no key of format_value
MissingHeaders(s) == DictValues(s.column_keys) \ DOMAIN s.format_value

\* C3 as claimed: in every returned schema every value of column_keys is a
\* key of format_value.
C3_Claimed == Returned => MissingHeaders(schema) = {}

\* the headers the sale-order generator leaves in column_keys on purpose
\* although it removes them from (or never puts them in) format_value
ExternalHeaders(c, n) ==
    {"__is_service_order_item__"}
    \cup (IF n = 1 THEN {"Canal *"} ELSE {})
    \cup (IF ~c.has_order_code THEN {"Numero do Pedido *", "Status *"} ELSE {})
    \cup (IF ~c.has_catalog THEN {"SKU Variante *", "Quantidade *"} ELSE {})

\* C3 amended: in the returned product schema every value of column_keys is
\* a key of format_value; in the returned sale-order schema the values of
\* column_keys that are no key of format_value are exactly
\* '__is_service_order_item__', 'Canal *' when there is one active website,
\* 'Numero do Pedido *' and 'Status *' when has_order_code=false, and
\* 'SKU Variante *' and 'Quantidade *' when has_catalog=false.
C3_ColumnKeysInFormatValue ==
    Returned =>
        MissingHeaders(schema) =
            IF active_sheet = PRODUCT THEN {} ELSE ExternalHeaders(company, websites)

C3_Witness ==
    /\ Returned
    /\ active_sheet = SALE_ORDER
    /\ ~company.has_catalog
    /\ ~company.has_order_code
    /\ websites = 1
    /\ MissingHeaders(schema) # {"__is_service_order_item__"}

\* C4: in every returned schema, product or sale-order, every header of
\* required_columns is a key of format_value.
C4_RequiredColumnsInFormatValue ==
    Returned => schema.required_columns \subseteq DOMAIN schema.format_value

C4_Witness ==
    /\ Returned
    /\ active_sheet = SALE_ORDER
    /\ company.is_service_segment
    /\ company.has_catalog
    /\ company.has_product_code
    /\ ~company.has_order_code
    /\ websites = 1
    /\ "Preço Pago Total *" \in schema.required_columns

\* what each block has done to format_value once it has run
NoProductCodeApplied(s, c) ==
    c.has_catalog /\ ~c.has_product_code => "Nome do Produto *" \in DOMAIN s.format_value
NoOrderCodeApplied(s, c) ==
    ~c.has_order_code => "Numero do Pedido *" \notin DOMAIN s.format_value
NoOrderCodePending(s) == "Numero do Pedido *" \in DOMAIN s.format_value
WebsitesApplied(s, n) == n = 1 => "Canal *" \notin DOMAIN s.format_value
WebsitesPending(s) == "Canal *" \in DOMAIN s.format_value
ServiceSegmentApplied(s, c) ==
    c.is_service_segment => "Nome do Serviço *" \in DOMAIN s.format_value
ServiceSegmentPending(s) == "Nome do Serviço *" \notin DOMAIN s.format_value

\* C5 as claimed: the sale-order generator runs the service-segment
\* reductions second, on the result of the product-code-absence reductions
\* alone, before the website-count and the order-code-absence reductions.
C5_Claimed ==
    active_sheet = SALE_ORDER /\ gpc = "service_segment" =>
        /\ NoOrderCodePending(schema)
        /\ WebsitesPending(schema)

\* C5 amended: the sale-order generator applies its blocks in the order
\* catalog-absence, product-code-absence, order-code-absence, website-count,
\* service-segment, and the product generator in the order
\* product-code-absence, service-segment; each block runs on the result of
\* the blocks before it.
C5_BlocksInCodeOrder ==
    /\ active_sheet = SALE_ORDER /\ gpc = "no_order_code" =>
            /\ NoProductCodeApplied(schema, company)
            /\ NoOrderCodePending(schema)
            /\ WebsitesPending(schema)
            /\ ServiceSegmentPending(schema)
    /\ active_sheet = SALE_ORDER /\ gpc = "websites" =>
            /\ NoProductCodeApplied(schema, company)
            /\ NoOrderCodeApplied(schema, company)
            /\ WebsitesPending(schema)
            /\ ServiceSegmentPending(schema)
    /\ active_sheet = SALE_ORDER /\ gpc = "service_segment" =>
            /\ NoProductCodeApplied(schema, company)
            /\ NoOrderCodeApplied(schema, company)
            /\ WebsitesApplied(schema, websites)
            /\ ServiceSegmentPending(schema)
    /\ active_sheet = SALE_ORDER /\ gpc = "return" =>
            /\ NoOrderCodeApplied(schema, company)
            /\ WebsitesApplied(schema, websites)
            /\ ServiceSegmentApplied(schema, company)
    /\ active_sheet = PRODUCT /\ gpc = "service_segment" =>
            /\ ~company.has_product_code => "Nome do Produto *" \in DOMAIN schema.format_value
            /\ "Custo para o Serviço" \notin DOMAIN schema.format_value
    /\ active_sheet = PRODUCT /\ gpc = "return" =>
            (company.is_service_segment
                => "Custo para o Serviço" \in DOMAIN schema.format_value)

C5_Witness ==
    /\ active_sheet = SALE_ORDER
    /\ gpc = "service_segment"
    /\ company.is_service_segment
    /\ ~company.has_order_code
    /\ websites = 1
    /\ ~NoOrderCodePending(schema)
    /\ ~WebsitesPending(schema)

\* the call just made is a call of `op` on a key that was registered (or
\* not) before it
JustCalled(ops) == ncalls' = ncalls + 1 /\ call'.op \in ops

\* C6: for every registered key, once the stored index is None (from the
\* start, or after an update_column_offset whose value is None) it is None
\* after every later call; as long as it has never been None it equals the
\* index the key was registered with plus the sum of the offsets applied.
C6_NoneIsStickyElseSum ==
    \A key \in DOMAIN data :
        IF hist[key].was_none
        THEN IsNone(data[key])
        ELSE data[key] = Some(ValueOf(hist[key].first) + hist[key].sum)

C6_Witness ==
    /\ call.op = "update_column_offset"
    /\ call.exc = NoExc
    /\ ~IsNone(call.arg)
    /\ ValueOf(call.arg) # 0
    /\ hist[call.key].was_none
    /\ \E key \in DOMAIN data : ~hist[key].was_none /\ hist[key].sum # 0

\* C7 as claimed: get_coordinate and get_coordinate_range on a registered
\* key return None if and only if the stored index is None, and raise
\* ValueError when the stored index is 0 or below.
C7_Claimed ==
    call.op \in {"get_coordinate", "get_coordinate_range"} /\ call.key \in DOMAIN data =>
        /\ (call.exc = NoExc /\ IsNone(call.ret)) <=> IsNone(data[call.key])
        /\ (~IsNone(data[call.key]) /\ ValueOf(data[call.key]) <= 0)
                => call.exc = "ValueError"

\* C8: add_column_index on a registered key raises ValueError and leaves
\* data unchanged; on an unregistered key it adds that key with the given
\* index and changes no other entry.
C8_AddColumnIndex ==
    [][JustCalled({"add_column_index"}) =>
            IF call'.key \in DOMAIN data
            THEN call'.exc = "ValueError" /\ data' = data
            ELSE /\ call'.exc = NoExc
                 /\ DOMAIN data' = DOMAIN data \cup {call'.key}
                 /\ data'[call'.key] = call'.arg
                 /\ \A key \in DOMAIN data : data'[key] = data[key]]_vars

C8_Witness ==
    /\ call.op = "add_column_index"
    /\ call.exc = "ValueError"
    /\ ~IsNone(call.arg)
    /\ data[call.key] # call.arg
    /\ DOMAIN data = Names

\* C9: get_column_index, update_column_offset, get_coordinate and
\* get_coordinate_range on an unregistered key raise KeyError and leave data
\* unchanged, so no entry is created for the key.
C9_UnregisteredKeyError ==
    [][JustCalled({"get_column_index", "update_column_offset",
                   "get_coordinate", "get_coordinate_range"})
       /\ call'.key \notin DOMAIN data
            => call'.exc = "KeyError" /\ data' = data]_vars

C9_Witness ==
    /\ call.op = "update_column_offset"
    /\ call.exc = "KeyError"
    /\ call.key \notin DOMAIN data
    /\ DOMAIN data # {}

\* the two ranges computed by _update_options_template span the same
\* number of rows, no end row exceeds EXCEL_MAX_ROWS and both end rows were
\* lowered by the same amount, if at all
EqualRowCounts ==
    /\ opt.options_list_start_row_index = OPTIONS_TABLE_START_ROW + sku_sizes
    /\ opt.sku_list_start_row_index = TABLE_START_ROW
    /\ opt.options_list_end_row_index - opt.options_list_start_row_index
            = opt.sku_list_end_row_index - opt.sku_list_start_row_index
    /\ opt.options_list_end_row_index <= EXCEL_MAX_ROWS
    /\ opt.sku_list_end_row_index <= EXCEL_MAX_ROWS
    /\ EXCEL_MAX_ROWS - opt.options_list_end_row_index
            = opt.computed_sku_list_end_row_index - opt.sku_list_end_row_index
    /\ IF opt.computed_sku_list_end_row_index > EXCEL_MAX_ROWS
       THEN opt.sku_list_end_row_index < opt.computed_sku_list_end_row_index
       ELSE opt.sku_list_end_row_index = opt.computed_sku_list_end_row_index

\* _update_options_template has run
OptionsDone == tpc \notin {"idle", "call", "options"}

\* C10 as claimed: every number of SKU sizes from 0 to EXCEL_MAX_ROWS is
\* accepted by _update_options_template, which computes for it two ranges
\* of the same number of rows.
C10_Claimed ==
    OptionsDone /\ sku_sizes <= EXCEL_MAX_ROWS => HasLocals /\ EqualRowCounts

\* get_template has run its three updates without raising: the workbook is
\* the generated one
Generated == tpc \in {"response", "returned"}

\* the validations of the generated sale-order sheet that validate `name`
ValidationsOf(name) ==
    {i \in 1..Len(wb.validations) : wb.validations[i].name = name}

\* C11: with exactly one active website the generated sale-order sheet has no
\* 'Canal *' column, the coordinate tracked under 'website' is None and no
\* website dropdown validation is attached; the sale-order schema has no
\* 'Canal *' key either.
C11_SingleWebsiteNoChannel ==
    /\ websites = 1 /\ Generated =>
            /\ ~SeqContains(wb.sale_order, "Canal *")
            /\ IsNone(coord["website"])
            /\ ValidationsOf("website") = {}
            /\ \A i \in 1..Len(wb.validations) :
                    wb.validations[i].sqref # None
    /\ websites = 1 /\ active_sheet = SALE_ORDER /\ Returned =>
            "Canal *" \notin DOMAIN schema.format_value

C11_Witness ==
    /\ websites = 1
    /\ tpc = "returned"
    /\ company.has_order_code
    /\ ~company.is_service_segment
    /\ ValidationsOf("status") # {}
    /\ ~SeqContains(wb.sale_order, "Canal *")

\* the columns of a column-name row whose header is one of `names`
ColumnsNamed(headers, names) == {i \in 1..Len(headers) : headers[i] \in names}

\* C12: the column-name row of the product sheet of every generated workbook
\* that has one contains exactly one column among 'SKU *',
\* 'Código do Produto *' and 'Nome do Produto *': 'Nome do Produto *' without
\* a product code, 'Código do Produto *' with a product code for a
\* service-segment company, 'SKU *' with a product code otherwise.
C12_ProductCodeHeader ==
    Generated /\ "Produtos" \in wb.sheetnames =>
        LET cols == ColumnsNamed(wb.product,
                        {"SKU *", "Código do Produto *", "Nome do Produto *"})
        IN  /\ Cardinality(cols) = 1
            /\ \A i \in cols :
                wb.product[i] =
                    IF ~company.has_product_code THEN "Nome do Produto *"
                    ELSE IF company.is_service_segment THEN "Código do Produto *"
                    ELSE "SKU *"

C12_Witness ==
    /\ tpc = "returned"
    /\ "Produtos" \in wb.sheetnames
    /\ company.is_service_segment
    /\ company.has_product_code
    /\ SeqContains(wb.product, "Código do Produto *")

\* C13: among 'SKU Variante *', 'Código do Produto *' and
\* 'Nome do Produto *' the column-name row of every generated sale-order
\* sheet contains none without a catalog; with a catalog exactly one:
\* 'Nome do Produto *' without a product code, 'Código do Produto *' with a
\* product code for a service-segment company, 'SKU Variante *' with a product
\* code otherwise.  It contains 'Nome do Serviço *' for every service-segment
\* company.
C13_SaleOrderCodeHeader ==
    Generated =>
        LET cols == ColumnsNamed(wb.sale_order,
                        {"SKU Variante *", "Código do Produto *", "Nome do Produto *"})
        IN  /\ Cardinality(cols) = IF company.has_catalog THEN 1 ELSE 0
            /\ \A i \in cols :
                wb.sale_order[i] =
                    IF ~company.has_product_code THEN "Nome do Produto *"
                    ELSE IF company.is_service_segment THEN "Código do Produto *"
                    ELSE "SKU Variante *"
            /\ company.is_service_segment =>
                    Cardinality(ColumnsNamed(wb.sale_order, {"Nome do Serviço *"})) = 1

C13_Witness ==
    /\ tpc = "returned"
    /\ company.is_service_segment
    /\ ~company.has_catalog
    /\ SeqContains(wb.sale_order, "Nome do Serviço *")
    /\ ~SeqContains(wb.sale_order, "SKU Variante *")

\* the range get_coordinate_range gives for the column `index`
DataRangeOf(index) ==
    Some(get_column_letter(index) \o ToString(TABLE_START_ROW) \o ":"
         \o get_column_letter(index) \o ToString(EXCEL_MAX_ROWS))

\* the validation of `name` is attached, once, to the data cells of the
\* column `index`, and the cells it requires to be blank are those of the
\* columns `others`
ExcludesColumns(name, index, others) ==
    /\ Cardinality(ValidationsOf(name)) = 1
    /\ \A i \in ValidationsOf(name) :
        /\ wb.validations[i].sqref = DataRangeOf(index)
        /\ {index + o : o \in RequiredBlankOffsets(wb.validations[i])} = others

\* C14: for a service-segment company with a catalog and a product code the
\* generated sale-order sheet has the columns 'Código do Produto *',
\* 'Quantidade do Produto *' and 'Nome do Serviço *', and the validations
\* attached to the data cells of these three columns accept a product code
\* or a quantity only in a row whose service name is blank, and a service
\* name only in a row whose product code and quantity are blank.
C14_ServiceOrProduct ==
    Generated /\ company.is_service_segment /\ company.has_catalog
              /\ company.has_product_code =>
        LET sku == _find_header_index_by_value(wb.sale_order, "Código do Produto *")
            quantity == _find_header_index_by_value(wb.sale_order,
                                                    "Quantidade do Produto *")
            service == _find_header_index_by_value(wb.sale_order, "Nome do Serviço *")
        IN  /\ sku # 0 /\ quantity # 0 /\ service # 0
            /\ ExcludesColumns("sku", sku, {service})
            /\ ExcludesColumns("quantity", quantity, {service})
            /\ ExcludesColumns("service", service, {sku, quantity})

C14_Witness ==
    /\ tpc = "returned"
    /\ company.is_service_segment /\ company.has_catalog /\ company.has_product_code
    /\ ~company.has_order_code
    /\ websites = 1
    /\ Cardinality(ValidationsOf("service")) = 1
    /\ _find_header_index_by_value(wb.sale_order, "Nome do Serviço *") = 4

\* C15: for every flag combination with a catalog, or without a catalog for
\* a service-segment company without product code, and at least one active
\* website, no lookup of a header that get_template makes for a delete, a
\* rename, an insertion, a coordinate registration or a validation fails, no
\* KeyError is raised, and the call reaches the response (the one refusal
\* left is the ValueError of _update_options_template for EXCEL_MAX_ROWS - 1
\* SKU sizes or more, whose cells do not fit in the sheet).  The one lookup
\* that fails is that of the date column of the product sheet for the
\* column format, which is caught.
C15_LookupsResolve ==
    ValidFlags(company) /\ websites >= 1 /\ tpc # "call" =>
        /\ wb.not_found \subseteq {"Data do Último Recebimento"}
        /\ texc \in {NoExc, "ValueError"}
        /\ tpc = "raised" => /\ texc = "ValueError"
                             /\ sku_sizes >= EXCEL_MAX_ROWS - 1
                             /\ wb.options.sheet_state = "visible"
                             /\ wb.sale_order = MasterSaleOrderHeaders
        /\ sku_sizes <= EXCEL_MAX_ROWS - 2 /\ OptionsDone => tpc # "raised"
        /\ tpc = "response" =>
                /\ wb.options.sheet_state = "hidden"
                /\ ~IsNone(wb.sale_order_date_column)

C15_Witness ==
    /\ tpc = "returned"
    /\ company.is_service_segment
    /\ ~company.has_catalog
    /\ ~company.has_product_code
    /\ ~company.has_order_code
    /\ websites = 1
    /\ "Produtos" \notin wb.sheetnames
    /\ Len(wb.sale_order) = 9

\* every validation attached to the sale-order sheet has a formula and a
\* range
ValidationsWellFormed ==
    \A i \in 1..Len(wb.validations) :
        /\ wb.validations[i].formula1 # ""
        /\ wb.validations[i].sqref # None

\* C16 as claimed: every generated sale-order sheet has at least one data
\* validation, and every validation attached has a non-empty formula.
C16_Claimed ==
    Generated /\ ValidFlags(company) /\ websites >= 1 =>
        /\ Len(wb.validations) >= 1
        /\ ValidationsWellFormed

\* C16 amended: every validation attached to a generated sale-order sheet has
\* a non-empty formula, and the sheet has at least one validation except for
\* a company without catalog and without order code that has exactly one
\* active website, whose sheet has none.
C16_ValidationsUnlessNoColumn ==
    Generated =>
        /\ ValidationsWellFormed
        /\ Len(wb.validations) = 0 <=>
                (~company.has_catalog /\ ~company.has_order_code /\ websites = 1)

C16_Witness ==
    /\ tpc = "returned"
    /\ Len(wb.validations) = 0
    /\ company.is_service_segment
    /\ IsNone(coord["website"]) /\ IsNone(coord["status"]) /\ IsNone(coord["sku"])

\* C17: a generated workbook contains the sheet 'Produtos' if and only if
\* has_catalog=true, and post lists 'Produtos' among the sheet names it
\* expects in the upload if and only if has_catalog=true: the sheets of the
\* generated workbook other than the options sheet are the sheets expected.
C17_ProductSheetIffCatalog ==
    /\ Generated => ("Produtos" \in wb.sheetnames <=> company.has_catalog)
    /\ sheet_names # <<>> =>
            (SeqContains(sheet_names, "Produtos") <=> company.has_catalog)
    /\ Generated /\ sheet_names # <<>> =>
            {sheet_names[i] : i \in 1..Len(sheet_names)} = wb.sheetnames \ {"Opções"}

C17_Witness ==
    /\ tpc = "returned"
    /\ ~company.has_catalog
    /\ sheet_names = <<"Pedidos">>
    /\ wb.sheetnames = {"Pedidos", "Opções"}

\* C20 as claimed: once a header lookup has failed during get_template,
\* the generation is aborted.
C20_Claimed ==
    tpc # "call" /\ wb.not_found # {} => tpc = "raised"

\* C20: a SpreadsheetColumnNotFound that leaves an update aborts get_template,
\* and so does every failed lookup but that of the product sheet's
\* 'Data do Último Recebimento', which _update_product_template catches; a
\* workbook is returned only after the options, product and sale-order
\* updates have all completed without exception.
C20_AbortUnlessCaught ==
    /\ texc = "SpreadsheetColumnNotFound" => tpc = "raised" /\ wb.not_found # {}
    /\ tpc # "call" /\ wb.not_found \ {"Data do Último Recebimento"} # {} =>
            tpc = "raised" /\ texc = "SpreadsheetColumnNotFound"
    /\ Generated =>
            /\ texc = NoExc
            /\ wb.options.sheet_state = "hidden"
            /\ company.has_catalog =>
                    \/ ~IsNone(wb.product_date_column)
                    \/ "Data do Último Recebimento" \in wb.not_found
            /\ ~company.has_catalog => "Produtos" \notin wb.sheetnames
            /\ ~IsNone(wb.sale_order_date_column)

C20_Witness ==
    /\ tpc = "raised"
    /\ texc = "SpreadsheetColumnNotFound"
    /\ wb.options.sheet_state = "hidden"
    /\ "Data do Último Recebimento" \notin wb.not_found

\* the round trip of C19: the column `index`, whose group-row cell is in no
\* merged range, was deleted and a column with the same header value was
\* added at the same index
RoundTrip(index) ==
    /\ wpc = "readded"
    /\ index \in DOMAIN header(ws0)
    /\ \A r \in ws0.merged : index < r[1] \/ index > r[2]
    /\ wops[1] = WsOp("delete", index, None)
    /\ wops[2] = WsOp("add", index, header(ws0)[index].value)

\* the style of a header cell written by _add_column_with_merged_ranges
AddedStyle(cell) ==
    /\ cell.type = "Cell"
    /\ cell.alignment = Some("center")
    /\ cell.border = Border(Some("thin"), Some("thin"), Some("thin"), Some("thin"))
    /\ cell.fill = None
    /\ cell.font.bold
    /\ cell.font.color = IF cell.value \in {Some("SKU *"), Some("Nome *")}
                         THEN Some("E97132") ELSE None

\* C19 as claimed: the round trip restores the header cell of the column,
\* text and style.
C19_Claimed ==
    \A index \in 1..MaxCols : RoundTrip(index) =>
        /\ index \in DOMAIN header(ws)
        /\ header(ws)[index] = header(ws0)[index]

\* C19: the round trip restores the header text of the column and leaves the
\* other header cells as they were; the header cell of the column gets the
\* style that _add_column_with_merged_ranges gives every new header (centered,
\* thin borders, bold, colored if the text ends with '*', default fill), which
\* is its original style only if it had that style before.  On a worksheet
\* of one column the deletion leaves no cell, ws.max_column is 1 all the
\* same, and the addition leaves a second column that holds no header cell
\* and whose first-row cell is merged with that of the column added.
C19_RoundTripRestoresText ==
    \A index \in 1..MaxCols : RoundTrip(index) =>
        /\ DOMAIN header(ws) = DOMAIN header(ws0)
        /\ max_column(ws0) > 1 => max_column(ws) = max_column(ws0)
        /\ max_column(ws0) = 1 =>
                /\ max_column(ws) = 2
                /\ group(ws)[2].type = "MergedCell"
                /\ ws.merged = {<<1, 2>>}
        /\ header(ws)[index].value = header(ws0)[index].value
        /\ \A c \in DOMAIN header(ws0) : c # index => header(ws)[c] = header(ws0)[c]
        /\ AddedStyle(header(ws)[index])
        /\ header(ws)[index] = header(ws0)[index] <=> AddedStyle(header(ws0)[index])

C19_Witness ==
    /\ RoundTrip(2)
    /\ max_column(ws0) = 3
    /\ ws0.merged = {<<1, 1>>}
    /\ header(ws0)[2].fill = Some("solid")
    /\ header(ws)[2].fill = None
    /\ header(ws)[2].value = Some("Preço POR")
    /\ header(ws)[3] = header(ws0)[3]

\* the headers of the column-name row of a sheet of the generated workbook
HeaderSet(sheet) ==
    LET headers == IF sheet = PRODUCT THEN wb.product ELSE wb.sale_order
    IN  {headers[i] : i \in 1..Len(headers)}

\* the three headers that _update_product_template gives the dimension columns
HumanizedDimensions ==
    [k \in 1..3 |-> get_humanized_dimension_name(k) \o " *"]

\* a format_value key as a header: a default dimension name stands for the
\* dimension column of the same rank
AsHeader(key) ==
    IF \E k \in 1..3 : key = FAKE_DIMENSIONS[k]
    THEN HumanizedDimensions[CHOOSE k \in 1..3 : key = FAKE_DIMENSIONS[k]]
    ELSE key

BothDone == Returned /\ Generated /\ active_sheet \in wb.sheetnames

\* C21 as claimed: the headers left in a sheet of the generated workbook are
\* the keys of the format_value returned for the same flags and sheet.
C21_Claimed ==
    BothDone => HeaderSet(active_sheet) = DOMAIN schema.format_value

\* C21: the headers left in the sale-order sheet are the keys of the
\* sale-order format_value; the headers left in the product sheet are the
\* keys of the product format_value once the generator is given the headers
\* that the mutator writes on the three dimension columns as its dimensions,
\* and with the default dimensions they differ in exactly those three columns
\* when has_product_code=true.
C21_HeadersAreFormatValueKeys ==
    BothDone =>
        /\ HeaderSet(active_sheet) = {AsHeader(key) : key \in DOMAIN schema.format_value}
        /\ HeaderSet(active_sheet) =
                DOMAIN GenerateXlsxParams(active_sheet, company, websites,
                                          HumanizedDimensions).format_value
        /\ HeaderSet(active_sheet) # DOMAIN schema.format_value
                <=> active_sheet = PRODUCT /\ company.has_product_code

C21_Witness ==
    /\ BothDone
    /\ active_sheet = PRODUCT
    /\ company.has_product_code
    /\ "Dimensão 1 *" \in HeaderSet(PRODUCT)
    /\ "__dimension_1__" \in DOMAIN schema.format_value

\* the range [a, b] after the deletion of column i, as C22 states it
DeletedRange(r, i) ==
    IF r[2] < i THEN r
    ELSE IF r[1] > i THEN <<r[1] - 1, r[2] - 1>>
    ELSE <<r[1], r[2] - 1>>

\* the number of columns of [a, b] other than column i
ColumnsBut(r, i) == Cardinality({c \in r[1]..r[2] : c # i})

\* the ranges that C22 has merged after the deletion of column i: every
\* range but one that held i and is left with one column or none
StillMerged(sheet, i) ==
    {r \in sheet.merged : r[2] < i \/ r[1] > i \/ ColumnsBut(r, i) > 1}

\* C22 as claimed: _delete_column_with_merged_ranges at index i maps every
\* merged range [a, b] to [a, b] if b < i, to [a-1, b-1] if a > i and to
\* [a, b-1] if a <= i <= b, not merged again when that is one column; the
\* new width of each is the number of its columns other than i, and no
\* range and no cell has a column index above the new width of the sheet,
\* which is one column less.
C22_Claimed ==
    \A i \in 1..MaxCols : wops = <<WsOp("delete", i, None)>> =>
        /\ wexc = NoExc
        /\ ws.merged = {DeletedRange(r, i) : r \in StillMerged(ws0, i)}
        /\ \A r \in ws0.merged :
                LET d == DeletedRange(r, i)
                IN  /\ d[2] - d[1] + 1 = ColumnsBut(r, i)
                    /\ d[2] <= max_column(ws0) - 1
        /\ \A r \in ws.merged : r[2] <= max_column(ws0) - 1
        /\ DOMAIN group(ws) \cup DOMAIN header(ws) = 1..(max_column(ws0) - 1)

\* the range [a, b] after the insertion of a column at i, as C23 states it
AddedRange(r, i) ==
    IF r[2] < i THEN r
    ELSE IF r[1] > i THEN <<r[1] + 1, r[2] + 1>>
    ELSE <<r[1], r[2] + 1>>

\* the first-row ranges of a sheet: the merged ranges and each unmerged cell
FirstRowRanges(sheet) ==
    sheet.merged \cup {ImplicitRanges(sheet)[k] : k \in DOMAIN ImplicitRanges(sheet)}

\* C23 as claimed: _add_column_with_merged_ranges at an index i among the
\* columns of the sheet maps every first-row range [a, b], merged or an
\* unmerged cell, to [a, b] if b < i, to [a+1, b+1] if a > i and to
\* [a, b+1] if a <= i <= b: the merged ranges after the call are the images
\* of the merged ranges and the widened cell, the first-row ranges after it
\* are the images of the first-row ranges, and the inserted column is part
\* of the range that held i.
C23_Claimed ==
    \A i \in 1..MaxCols :
        wpc # "loaded" /\ Len(wops) = 1 /\ wops[1].op = "add" /\ wops[1].index = i
        /\ i <= max_column(ws0) =>
            /\ wexc = NoExc
            /\ ws.merged = {AddedRange(r, i) : r \in ws0.merged}
                            \cup {<<r[1], r[2] + 1>> : r \in {x \in FirstRowRanges(ws0) :
                                                            x[1] <= i /\ i <= x[2]}}
            /\ FirstRowRanges(ws) = {AddedRange(r, i) : r \in FirstRowRanges(ws0)}
            /\ \E r \in FirstRowRanges(ws0) :
                    /\ r[1] <= i /\ i <= r[2]
                    /\ <<r[1], r[2] + 1>> \in ws.merged

\* C24: a call of either column edit on a worksheet that holds a merged range
\* of more than one row raises ValueError and leaves the cells, the merged
\* ranges and the columns of the worksheet as they were.
C24_MultiRowRejectedUnchanged ==
    [][wops' # wops /\ ws.tall # {} =>
            /\ wexc' = "ValueError"
            /\ wpc' = "raised"
            /\ ws' = ws
      ]_vars

C24_Witness ==
    /\ wpc = "raised"
    /\ wexc = "ValueError"
    /\ wops = <<WsOp("add", 1, Some("SKU *"))>>
    /\ ws0.tall # {}
    /\ ws0.merged = {<<1, 2>>, <<3, 3>>}
    /\ ws = ws0

\* the merged ranges of a sheet are pairwise disjoint
RangesDisjoint(sheet) ==
    \A r, q \in sheet.merged : r # q => r[2] < q[1] \/ q[2] < r[1]

\* C29 as claimed: after any sequence of _delete_column_with_merged_ranges
\* and _add_column_with_merged_ranges calls on a sheet whose merged ranges
\* are single-row and pairwise disjoint, the merged ranges are single-row,
\* pairwise disjoint, and each has 1 <= min_col < max_col <= the number of
\* columns of the sheet.
C29_Claimed ==
    ws0.tall = {} /\ RangesDisjoint(ws0) /\ wops # <<>> =>
        /\ wexc = NoExc
        /\ ws.tall = {}
        /\ RangesDisjoint(ws)
        /\ \A r \in ws.merged : 1 <= r[1] /\ r[1] < r[2] /\ r[2] <= max_column(ws)

\* the headers that the column tracked under a name can carry
TrackedHeaders(key) ==
    CASE key = "website" -> {"Canal *"}
      [] key = "status" -> {"Status *"}
      [] key = "sku" -> {"SKU Variante *", "Nome do Produto *", "Código do Produto *"}

\* the 1-based position of that column in the sale-order sheet, None if the
\* sheet has no such column
PositionOf(key) ==
    LET cols == ColumnsNamed(wb.sale_order, TrackedHeaders(key))
    IN  IF cols = {} THEN None ELSE Some(CHOOSE i \in cols : \A j \in cols : i <= j)

\* C25: in every generated workbook each of 'website', 'status' and 'sku' is
\* None exactly when the sale-order sheet has no 'Canal *', 'Status *' or
\* SKU/product-identifier column, and otherwise is the 1-based position of
\* that column; a validation of one of the three is attached to the data
\* cells of that column.
C25_CoordinatesArePositions ==
    Generated =>
        \A key \in {"website", "status", "sku"} :
            /\ Cardinality(ColumnsNamed(wb.sale_order, TrackedHeaders(key))) <= 1
            /\ coord[key] = PositionOf(key)
            /\ \A i \in ValidationsOf(key) :
                    /\ ~IsNone(PositionOf(key))
                    /\ wb.validations[i].sqref = DataRangeOf(ValueOf(PositionOf(key)))

C25_Witness ==
    /\ tpc = "returned"
    /\ ~company.has_order_code
    /\ company.has_catalog
    /\ websites = 1
    /\ IsNone(coord["website"])
    /\ IsNone(coord["status"])
    /\ coord["sku"] = Some(2)
    /\ wb.sale_order[2] = "Nome do Produto *"
    /\ ValidationsOf("sku") # {}


\* C26: for every number n of SKU sizes that passes the guard of
\* _update_options_template (n <= EXCEL_MAX_ROWS) the options mirror range
\* is well formed: its start row OPTIONS_TABLE_START_ROW + n is at most its
\* end row and at most EXCEL_MAX_ROWS, so the anchor cell and the range of
\* the array formula lie inside the sheet.
C26_Claimed ==
    HasLocals /\ sku_sizes <= EXCEL_MAX_ROWS =>
        /\ opt.options_list_start_row_index = OPTIONS_TABLE_START_ROW + sku_sizes
        /\ opt.options_list_start_row_index <= opt.options_list_end_row_index
        /\ opt.options_list_start_row_index <= EXCEL_MAX_ROWS

\* the three validations of the service-or-product rule are attached
MutualExclusionAttached ==
    /\ Generated
    /\ company.is_service_segment /\ company.has_catalog
    /\ "sku" \in DOMAIN coord /\ ~IsNone(coord["sku"])

\* C27: whenever the mutual-exclusion validations are attached (service
\* segment, catalog, SKU column present) 'quantity' and 'service' are
\* registered before their ranges are read, so no KeyError is raised, and
\* in the final sheet the tracked columns are quantity = sku + 1 and
\* service = sku + 2, at the places of their headers, for every value of
\* has_product_code, has_order_code and the website count; the columns that
\* the formulas address by COLUMN()+2, COLUMN()+1, COLUMN()-1 and
\* COLUMN()-2 are therefore the service, service, quantity and SKU columns.
C27_OffsetsAddressColumns ==
    MutualExclusionAttached =>
        /\ texc = NoExc
        /\ {"quantity", "service"} \subseteq DOMAIN coord
        /\ ~IsNone(coord["quantity"]) /\ ~IsNone(coord["service"])
        /\ LET sku == ValueOf(coord["sku"])
               quantity == ValueOf(coord["quantity"])
               service == ValueOf(coord["service"])
           IN  /\ quantity = sku + 1
               /\ service = sku + 2
               /\ wb.sale_order[sku] \in {"Código do Produto *", "Nome do Produto *"}
               /\ wb.sale_order[quantity] = "Quantidade do Produto *"
               /\ wb.sale_order[service] = "Nome do Serviço *"
               /\ \A i \in ValidationsOf("sku") :
                    /\ wb.validations[i].sqref = DataRangeOf(sku)
                    /\ {sku + o : o \in RequiredBlankOffsets(wb.validations[i])}
                            = {service}
               /\ \A i \in ValidationsOf("quantity") :
                    /\ wb.validations[i].sqref = DataRangeOf(quantity)
                    /\ {quantity + o : o \in RequiredBlankOffsets(wb.validations[i])}
                            = {service}
               /\ \A i \in ValidationsOf("service") :
                    /\ wb.validations[i].sqref = DataRangeOf(service)
                    /\ {service + o : o \in RequiredBlankOffsets(wb.validations[i])}
                            = {quantity, sku}
               /\ Cardinality(ValidationsOf("sku")) = 1
               /\ Cardinality(ValidationsOf("quantity")) = 1
               /\ Cardinality(ValidationsOf("service")) = 1

C27_Witness ==
    /\ tpc = "returned"
    /\ MutualExclusionAttached
    /\ ~company.has_product_code /\ company.has_order_code
    /\ websites = 2
    /\ coord["sku"] = Some(5)
    /\ coord["service"] = Some(7)
    /\ Cardinality(ValidationsOf("quantity")) = 1

\* the text of a formula refers to the sheet `name`: it contains name!
RefersTo(text, name) ==
    \E i \in 1..(Len(text) - Len(name)) :
        SubSeq(text, i, i + Len(name)) = name \o "!"

\* the sheets of the master workbook that a formula refers to
SheetsReferredTo(text) ==
    {name \in MasterWorkbook.sheetnames : RefersTo(text, name)}

\* C28: for every valid flag combination every sheet that a formula, a
\* data validation or a sheet lookup of the mutator refers to exists in the
\* workbook at that point and in the workbook that is returned: 'Produtos'
\* for the array formula of the options sheet and for the lookup of the
\* sale-order default value, 'Opções' for the sale-order validations.
C28_Claimed ==
    ValidFlags(company) /\ websites >= 1 /\ tpc # "call" =>
        /\ texc # "KeyError"
        /\ ~IsNone(wb.options.array_formula) =>
                /\ SheetsReferredTo(ValueOf(wb.options.array_formula).text)
                        = {"Produtos"}
                /\ "Produtos" \in wb.sheetnames
        /\ \A i \in 1..Len(wb.validations) :
                /\ SheetsReferredTo(wb.validations[i].formula1) \subseteq {"Opções"}
                /\ SheetsReferredTo(wb.validations[i].formula1) \subseteq wb.sheetnames
        /\ ~IsNone(wb.default_value) => "Produtos" \in wb.sheetnames

\* the path of an entry of the tree, from root_dir down
RECURSIVE PathOf(_, _)
PathOf(t, n) == IF n = 1 THEN root_dir ELSE Append(PathOf(t, t.parent[n]), n)

\* the directories from root_dir down to the entry n, n excluded
RECURSIVE Above(_, _)
Above(t, n) == IF n = 1 THEN {} ELSE {t.parent[n]} \cup Above(t, t.parent[n])

\* the directories that a walk from root_dir reaches: real directories (not
\* symbolic links) below directories that can all be read
ReachableDirs(t) ==
    {n \in 1..Len(t.parent) : t.kind[n] = "dir" /\ Above(t, n) \cap t.denied = {}}

\* the tuples yielded so far are those of reachable directories, once each,
\* a parent before its children and a level before the next one, each with
\* the names of its subdirectories and of its other entries, or with none
\* if it cannot be read; when the walk is over every reachable directory
\* was yielded
WalkSafe ==
    fpc # "idle" =>
        /\ \A i \in 1..Len(yielded) :
            LET y == yielded[i]
                n == y.path[Len(y.path)]
            IN  /\ n \in ReachableDirs(tree)
                /\ y.path = PathOf(tree, n)
                /\ \A j \in 1..Len(yielded) : yielded[j].path = y.path => j = i
                /\ n # 1 => \E j \in 1..(i - 1) :
                                yielded[j].path = PathOf(tree, tree.parent[n])
                /\ \A j \in 1..(i - 1) : Len(yielded[j].path) <= Len(y.path)
                /\ {y.dirs[k] : k \in 1..Len(y.dirs)}
                      = IF n \in tree.denied THEN {}
                        ELSE {m \in 1..Len(tree.parent) :
                                tree.parent[m] = n /\ tree.kind[m] = "dir"}
                /\ {y.files[k] : k \in 1..Len(y.files)}
                      = IF n \in tree.denied THEN {}
                        ELSE {m \in 1..Len(tree.parent) :
                                tree.parent[m] = n /\ tree.kind[m] # "dir"}
                /\ Len(y.dirs) + Len(y.files)
                      = IF n \in tree.denied THEN 0
                        ELSE Cardinality({m \in 1..Len(tree.parent) : tree.parent[m] = n})
        /\ fpc = "done" =>
                {yielded[i].path : i \in 1..Len(yielded)}
                    = {PathOf(tree, n) : n \in ReachableDirs(tree)}

\* C30: fast_walk_concurrent yields every directory reachable from root_dir
\* (symbolic links to directories are not followed) exactly once, a parent
\* before its children and a whole level before the next one, and the walk
\* of a finite tree terminates when its tuples are taken to the end; a
\* directory that cannot be read is yielded with no subdirectories and no
\* files and the other directories of the level are walked all the same.
C30_WalkYieldsEveryDirectoryOnce ==
    []WalkSafe /\ ((consumer = "next") ~> (fpc = "done"))

C30_Witness ==
    /\ fpc = "done"
    /\ consumer = "next"
    /\ Len(tree.parent) = MaxNodes
    /\ tree.kind = <<"dir", "dir", "dir", "dir">>
    /\ tree.parent = <<0, 1, 1, 3>>
    /\ tree.denied = {2}
    /\ Len(yielded) = 4
    /\ yielded[2] = [path |-> <<1, 2>>, dirs |-> <<>>, files |-> <<>>]
    /\ yielded[3] = [path |-> <<1, 3>>, dirs |-> <<4>>, files |-> <<>>]
    /\ yielded[4].path = <<1, 3, 4>>

====
